---------------------------- MODULE Spec2Model ----------------------------
(***************************************************************************)
(* Incremental mail sync of AdminiMail: the coordinator                    *)
(* (WorkflowRunner.runMainWorkflow / runZeroWorkflow), the processing lock *)
(* in the key-value store, the resume cursor, and the shard registry and   *)
(* router (getActiveShardId, getZeroAgent, getThread) of server-utils.     *)
(*                                                                         *)
(* One mailbox (connection) is modelled.  Every await of the code is a     *)
(* step boundary: concurrent runs interleave at those points only.         *)
(***************************************************************************)
EXTENDS Integers, Sequences, FiniteSets, TLC

(***************************************************************************)
(* Bounds of the model.                                                    *)
(***************************************************************************)
\* number of coordinator runs (notification deliveries) explored
NumRuns == 3
\* the provider's change log has entries 1..MaxToken
MaxToken == 2
\* shard ids that crypto.randomUUID() can hand out
MaxShards == 2
\* runs in flight at the same time
MaxActive == 2

Runs == 1..NumRuns
Tokens == 1..MaxToken
ShardIds == 1..MaxShards
Threads == {"T1", "T2"}
Labels == {"X", "Y"}
\* null / undefined: no token, no shard
Null == 0
\* Number.POSITIVE_INFINITY: above every size a 32-bit model integer holds
POSITIVE_INFINITY == 2147483647
connectionId == "c1"
Providers == {"google", "other"}

(***************************************************************************)
(* Shard size ceiling.  Sizes are counted in KiB in the model (the code    *)
(* counts bytes; 8192 * 1024 * 1024 does not fit 32-bit model integers),   *)
(* so mbToBytes multiplies by 1024 once.                                   *)
(***************************************************************************)
mbToBytes(mb) == mb * 1024
MAX_SHARD_SIZE == mbToBytes(8192)
\* the sizes a shard's getDatabaseSize() reports in the model
Sizes == {0, 1, MAX_SHARD_SIZE}

VARIABLES
  kv,           \* gmail_processing_threads: the set of keys present
  cursor,       \* gmail_history_id[connectionId]: the resume cursor, or Null
  head,         \* the provider's latest change token
  registry,     \* the shards table of the registry, in insertion order
  shardThreads, \* shard id -> the thread ids stored in that shard
  shardLabels,  \* shard id -> thread id -> the label ids of the thread's rows
  shardSize,    \* shard id -> what getDatabaseSize() returns
  homeShard,    \* history: thread id -> the shard it was first written to, or Null
  runs,         \* run -> the state of one runMainWorkflow/runZeroWorkflow call
  quiet,        \* history: the token of the run that last completed on its own,
                \* Null once a run starts or the provider changes
  call,         \* the scatter-gather call in progress (server-utils)
  engine,       \* the workflow engine's chain in progress (WorkflowEngine)
  mailer,       \* the scheduled emails: their stores, the send queue, the handlers
  server        \* the AdminiMailServerManager and its listeners

vars == <<kv, cursor, head, registry, shardThreads, shardLabels, shardSize, homeShard,
          runs, quiet, call, engine, mailer, server>>

(***************************************************************************)
(* The provider's change log (agent.listHistory).  Entry i of the log:     *)
(* messagesAdded as <<threadId, isDraft>>, labelsAdded / labelsRemoved as  *)
(* <<threadId, labelIds>>.                                                 *)
(***************************************************************************)
HistoryItem(i) ==
  IF i % 2 = 0
  THEN [messagesAdded |-> << <<"T1", FALSE>>, <<"T2", FALSE>> >>,
        labelsAdded   |-> << <<"T1", {"X"}>> >>,
        labelsRemoved |-> << >>]
  ELSE [messagesAdded |-> << <<"T1", FALSE>>, <<"T2", TRUE>> >>,
        labelsAdded   |-> << <<"T2", {"Y"}>> >>,
        labelsRemoved |-> << <<"T1", {"X"}>> >>]

\* listHistory(startHistoryId): the entries after startHistoryId, oldest first
listHistory(startHistoryId) ==
  [k \in 1..(head - startHistoryId) |-> HistoryItem(startHistoryId + k)]


(***************************************************************************)
(* The diff of runZeroWorkflow: threadsAdded and threadLabelChanges.       *)
(* A JS Set / Map keeps insertion order: both are sequences here.          *)
(***************************************************************************)
SeqToSet(q) == {q[k] : k \in 1..Len(q)}

\* Set.add on an insertion-ordered set
SetAdd(q, x) == IF x \in SeqToSet(q) THEN q ELSE Append(q, x)

\* index of threadId in the threadLabelChanges map, 0 when absent
ChangeIndex(changes, threadId) ==
  IF \E k \in 1..Len(changes) : changes[k].threadId = threadId
  THEN CHOOSE k \in 1..Len(changes) : changes[k].threadId = threadId
  ELSE 0

\* processLabelChange(labelChange, isAddition) on the map `changes`
processLabelChange(changes, labelChange, isAddition) ==
  LET threadId == labelChange[1]
      labelIds == labelChange[2]
  IN IF threadId = "" \/ labelIds = {} THEN changes
     ELSE LET withEntry == IF ChangeIndex(changes, threadId) = 0
                           THEN Append(changes, [threadId |-> threadId,
                                                 addLabels |-> {},
                                                 removeLabels |-> {}])
                           ELSE changes
              k == ChangeIndex(withEntry, threadId)
          IN IF isAddition
             THEN [withEntry EXCEPT ![k].addLabels = @ \cup labelIds]
             ELSE [withEntry EXCEPT ![k].removeLabels = @ \cup labelIds]

RECURSIVE AddedOfMessages_WithDrafts(_, _)
\* variant of AddedOfMessages: drafts are not skipped
AddedOfMessages_WithDrafts(added, msgs) ==
  IF msgs = << >> THEN added
  ELSE AddedOfMessages_WithDrafts(SetAdd(added, Head(msgs)[1]), Tail(msgs))

RECURSIVE AddedOfMessages(_, _)
\* historyItem.messagesAdded.forEach: drafts are skipped
AddedOfMessages(added, msgs) ==
  IF msgs = << >> THEN added
  ELSE LET msg == Head(msgs)
       IN AddedOfMessages(IF msg[2] THEN added ELSE SetAdd(added, msg[1]), Tail(msgs))

RECURSIVE LabelChangesOf(_, _, _)
\* labelChanges.forEach(processLabelChange(_, isAddition))
LabelChangesOf(changes, labelChanges, isAddition) ==
  IF labelChanges = << >> THEN changes
  ELSE LabelChangesOf(processLabelChange(changes, Head(labelChanges), isAddition),
                      Tail(labelChanges), isAddition)

RECURSIVE threadsAddedOf(_, _)
\* history.forEach: the threadsAdded set
threadsAddedOf(added, history) ==
  IF history = << >> THEN added
  ELSE threadsAddedOf(AddedOfMessages(added, Head(history).messagesAdded), Tail(history))

RECURSIVE threadLabelChangesOf(_, _)
\* history.forEach: the threadLabelChanges map
threadLabelChangesOf(changes, history) ==
  IF history = << >> THEN changes
  ELSE threadLabelChangesOf(
         LabelChangesOf(LabelChangesOf(changes, Head(history).labelsAdded, TRUE),
                        Head(history).labelsRemoved, FALSE),
         Tail(history))

(***************************************************************************)
(* The key-value store of processing locks.                                *)
(***************************************************************************)
\* `history_${connectionId}__${historyId}`
historyProcessingKey(conn, historyId) ==
  "history_" \o conn \o "__" \o ToString(historyId)

\* variant of KvPutResponse: the put never reports an existing key
KvPutResponse_NeverNull(store, key) == "ok"

\* gmail_processing_threads.put(key, 'true', {expirationTtl}): the response is
\* null when the key already existed
KvPutResponse(store, key) == IF key \in store THEN "null" ELSE "ok"

\* bulkDeleteKeys(keys)
bulkDeleteKeys(store, keys) == store \ keys


(***************************************************************************)
(* The state of one coordinator run.  The fields after `error` are history *)
(* variables: they record what the run did and change no behaviour.        *)
(***************************************************************************)
IdleRun ==
  [pc |-> "idle",
   historyId |-> Null, nextHistoryId |-> Null,   \* ZeroWorkflowParams
   provider |-> "",                              \* foundConnection.providerId
   allShards |-> << >>, sizeLeft |-> {},         \* getActiveShardId
   selectedShardId |-> Null, minSize |-> POSITIVE_INFINITY,
   agent |-> Null,                               \* the shard getZeroAgent returned
   history |-> << >>,
   toSync |-> {},                                \* syncThread calls not settled yet
   syncResults |-> {},                           \* {threadId, success} kept by allSuccesses
   toEnrich |-> {},                              \* runThreadWorkflow calls not settled
   labelQueue |-> << >>,                         \* threadLabelChanges still to apply
   result |-> "", error |-> "",
   measured |-> << >>,      \* <<shard, size>> in the order the size queries completed
   inserted |-> << >>,      \* the shard ids this run registered
   wroteCursor |-> FALSE,   \* the run has put the cursor
   failed |-> {},           \* the steps that failed after the lock was acquired
   threw |-> {},            \* threads whose syncThread threw
   refreshed |-> {},        \* threads whose syncThread was called
   enriched |-> {},         \* threads whose runThreadWorkflow was called
   labelled |-> {},         \* threads whose label diff was applied
   labelFailed |-> {},      \* threads whose label diff failed
   connection |-> "",       \* why the connection lookup failed, "" when it did not
   threadId |-> "",          \* getThread: the thread asked for
   unanswered |-> {},       \* getThread: the shards whose query failed
   lockAtEnd |-> FALSE,     \* the run's lock key was present when the run ended
   alone |-> FALSE,         \* no other run was active while this one ran
   replay |-> FALSE,        \* started right after a run for the same token completed
   caughtUp |-> FALSE]      \* a replay of the token the provider's history ends at

(***************************************************************************)
(* The state of one scatter-gather call (aggregateShardDataEffect,         *)
(* raceShardDataEffect, aggregateShardDataSequentialEffect).  The fields   *)
(* after `error` are history variables.                                    *)
(***************************************************************************)
IdleCall ==
  [pc |-> "idle",
   kind |-> "",             \* "gather", "race" or "sequential"
   allShards |-> << >>,     \* listShards(registry)
   pending |-> {},          \* shards whose effect has not settled (gather, race)
   results |-> << >>,       \* Effect.all: shard position -> result, Null while unsettled
   index |-> 0,             \* sequential: position of the shard visited last
   accumulator |-> 0,       \* sequential: the running accumulator
   result |-> Null, shardId |-> Null, error |-> "",
   failedShards |-> {},     \* shards whose operation failed
   invoked |-> << >>,       \* sequential: the shards invoked, in order
   passed |-> << >>,        \* sequential: the accumulator each invocation was given
   produced |-> << >>,      \* sequential: the accumulator each invocation returned
   stopped |-> FALSE,       \* sequential: a step has returned shouldContinue = false
   listed |-> FALSE,        \* listShards has returned
   merged |-> FALSE]        \* the aggregator / finalizer was applied

(***************************************************************************)
(* The state of one executeWorkflowChain call and of the clearContext that *)
(* follows it.  Result maps are functions from step id to the value stored *)
(* (Null: no entry); error maps are sets of keys.  The fields after        *)
(* `thrown` are history variables.                                         *)
(***************************************************************************)
IdleEngine ==
  [pc |-> "idle",
   mode |-> "",             \* "chain": executeWorkflowChain; "loop": the loop of
                            \* runThreadWorkflowWithoutEffectImpl
   workflows |-> << >>,     \* workflowNames -> the registered definition, << >> when
                            \* no workflow of that name is registered
   contextResults |-> {},   \* workflowContext.results, as <<id, value>>
   sharedResults |-> {},    \* executeWorkflowChain: sharedResults, as <<id, value>>
   allErrors |-> {},        \* executeWorkflowChain: the keys of allErrors
   workflow |-> 0,          \* position of the workflow being executed
   step |-> 0,              \* position of the step to execute next
   results |-> {},          \* executeWorkflow: results, as <<id, value>>
   errors |-> {},           \* executeWorkflow: the keys of errors
   thrown |-> FALSE,        \* executeWorkflow has thrown
   tested |-> {},           \* <<workflow, step>> whose condition was called
   acted |-> {},            \* <<workflow, step>> whose action was called
   succeeded |-> {},        \* <<workflow, step>> whose action returned
   threw |-> {},            \* <<workflow, step>> whose action threw
   saw |-> {},              \* <<workflow, step, ids>>: the result keys a step was given
   broken |-> {},           \* <<workflow, step>> whose condition was not met
   aborted |-> {},          \* <<workflow, step>> that failed under 'fail'
   executed |-> {}]         \* the workflows executeWorkflow was called for

(***************************************************************************)
(* The scheduled emails (part_001): the scheduled_emails store, the        *)
(* send-email queue, the payload and status stores, the scheduled() runs   *)
(* and the queue handlers in flight.                                       *)
(***************************************************************************)
\* scheduled emails, scheduled() runs that overlap, queue handlers in flight
MaxMessages == 1
MaxCrons == 2
MaxHandlers == 2
\* messages of one email waiting in the send-email queue
MaxQueued == 2

MessageIds == 1..MaxMessages
Crons == 1..MaxCrons
Handlers == 1..MaxHandlers

\* one processScheduledEmails run: the keys listed and not visited yet, and
\* the key in hand
IdleCron == [pc |-> "idle", keys |-> {}, key |-> Null]
\* one message of a send-email batch being handled
IdleHandler == [pc |-> "idle", messageId |-> Null]

IdleMailer ==
  [scheduled |-> {},        \* scheduled_emails: the message ids with a key
   payload |-> {},          \* pending_emails_payload: the message ids with a payload
   cancelled |-> {},        \* pending_emails_status: the ids whose status is 'cancelled'
   queue |-> [m \in MessageIds |-> 0],   \* send-email queue: messages waiting, per id
   crons |-> [c \in Crons |-> IdleCron],
   handlers |-> [h \in Handlers |-> IdleHandler],
   sent |-> [m \in MessageIds |-> 0]]    \* history: how often the email was sent

(***************************************************************************)
(* The AdminiMailServerManager (part_001): its listeners in the order      *)
(* start() starts them.                                                    *)
(***************************************************************************)
Protocols == {"smtp", "imap", "pop3"}
Listeners == <<"smtp", "smtps", "imap", "imaps", "pop3", "pop3s">>

IdleServer ==
  [pc |-> "idle",
   isRunning |-> FALSE,
   secure |-> {},           \* the protocols configured with a secure port
   created |-> {},          \* the listener fields that are set (this.smtpServer, ...)
   listening |-> {},        \* the listeners whose start() resolved and that were
                            \* not stopped since
   next |-> 0,              \* start(): position of the listener to start next
   pending |-> {},          \* stop(): the stop promises not settled yet
   rethrow |-> FALSE,       \* stop() was called from the catch of start()
   rejected |-> FALSE]      \* the last start() rejected

Active(r) == runs[r].pc \notin {"idle", "done", "failed"}
Ended(r) == runs[r].pc \in {"done", "failed"}
LockKey(r) == historyProcessingKey(connectionId, runs[r].historyId)

Init ==
  /\ kv = {}
  /\ head = 1
  /\ cursor \in {Null, 1}
  /\ registry = << >>
  /\ shardThreads = [s \in ShardIds |-> {}]
  /\ shardLabels = [s \in ShardIds |-> [t \in Threads |-> {}]]
  /\ shardSize = [s \in ShardIds |-> 0]
  /\ homeShard = [t \in Threads |-> Null]
  /\ runs = [r \in Runs |-> IdleRun]
  /\ quiet = Null
  /\ call = IdleCall
  /\ mailer = IdleMailer
  /\ server = IdleServer
  /\ engine = IdleEngine

(***************************************************************************)
(* The environment: the provider records a change, a shard's size changes. *)
(***************************************************************************)
ProviderChange ==
  /\ head < MaxToken
  /\ head' = head + 1
  /\ quiet' = Null
  /\ runs' = [r \in Runs |-> [runs[r] EXCEPT !.replay = FALSE, !.caughtUp = FALSE]]
  /\ UNCHANGED <<call, engine, mailer, server, kv, cursor, registry, shardThreads, shardLabels, homeShard, shardSize>>

ResizeShard(s) ==
  /\ s \in SeqToSet(registry)
  /\ \E size \in Sizes :
       /\ size # shardSize[s]
       /\ shardSize' = [shardSize EXCEPT ![s] = size]
  /\ UNCHANGED <<call, engine, mailer, server, kv, cursor, head, registry, shardThreads, shardLabels, homeShard, runs, quiet>>

(***************************************************************************)
(* runMainWorkflow: a notification for token historyId is delivered.       *)
(***************************************************************************)
\* line 188: previousHistoryId || historyId
StartHistoryId(previousHistoryId, historyId) ==
  IF previousHistoryId # Null THEN previousHistoryId ELSE historyId

runMainWorkflow(r, historyId) ==
  /\ runs[r].pc = "idle"
  /\ \A q \in Runs : q < r => runs[q].pc # "idle"
  /\ historyId <= head
  /\ LET previousHistoryId == cursor
         nobody == \A q \in Runs : ~Active(q)
     IN runs' = [q \in Runs |->
                  IF q = r
                  THEN [IdleRun EXCEPT
                          !.pc = "lock",
                          !.historyId = StartHistoryId(previousHistoryId, historyId),
                          !.nextHistoryId = historyId,
                          !.alone = nobody,
                          !.replay = nobody /\ quiet = historyId,
                          !.caughtUp = nobody /\ quiet = historyId /\ head = historyId]
                  ELSE IF Active(q)
                       THEN [runs[q] EXCEPT !.alone = FALSE, !.replay = FALSE,
                                            !.caughtUp = FALSE]
                       ELSE runs[q]]
  /\ quiet' = Null
  /\ UNCHANGED <<call, engine, mailer, server, kv, cursor, head, registry, shardThreads, shardLabels, homeShard, shardSize>>

(***************************************************************************)
(* runZeroWorkflow, step by step.                                          *)
(***************************************************************************)
\* the locals of getActiveShardId are dead once getZeroAgent has returned
AgentReturned(run) ==
  [run EXCEPT !.allShards = << >>, !.sizeLeft = {}, !.selectedShardId = Null,
              !.minSize = POSITIVE_INFINITY, !.measured = << >>, !.inserted = << >>]

\* the run fails with `tag` at `step`: Effect.fail, handled by catchAll
Fail(r, tag, step) ==
  [AgentReturned(runs[r]) EXCEPT !.pc = "cleanup", !.error = tag,
                                 !.failed = @ \cup {step}]

\* what is kept of a run that has ended
Finish(run, pc, store) ==
  [IdleRun EXCEPT !.pc = pc, !.result = run.result, !.error = run.error,
                  !.failed = run.failed, !.wroteCursor = run.wroteCursor,
                  !.replay = run.replay, !.caughtUp = run.caughtUp,
                  !.lockAtEnd = historyProcessingKey(connectionId, run.historyId) \in store]

\* lines 233-257: the lock is put; a null response means it was held
AcquireLock(r) ==
  /\ runs[r].pc = "lock"
  /\ LET lockAcquired == KvPutResponse(kv, LockKey(r)) # "null"
     IN IF lockAcquired
        THEN /\ kv' = kv \cup {LockKey(r)}
             /\ runs' = [runs EXCEPT ![r].pc = "conn"]
        ELSE /\ kv' = kv
             /\ runs' = [runs EXCEPT ![r] = [runs[r] EXCEPT
                           !.pc = "cleanup", !.error = "HistoryAlreadyProcessing"]]
  /\ UNCHANGED <<call, engine, mailer, server, cursor, head, registry, shardThreads, shardLabels, homeShard, shardSize, quiet>>

\* lines 269-279: the query rejects, finds no row, or finds a row without an
\* access or refresh token
ConnectionFailures == {"query failed", "not found", "not authorized"}

\* line 283: whatever the lookup threw is mapped to DatabaseError
ConnectionError(found) == "DatabaseError"

\* lines 266-284: the connection row is looked up
FindConnection(r) ==
  /\ runs[r].pc = "conn"
  /\ \/ \E providerId \in Providers :
          runs' = [runs EXCEPT ![r] = [runs[r] EXCEPT
                     !.pc = "agent", !.provider = providerId]]
     \/ \E found \in ConnectionFailures :
          runs' = [runs EXCEPT ![r] = [Fail(r, ConnectionError(found), "conn") EXCEPT
                     !.connection = found]]
  /\ UNCHANGED <<call, engine, mailer, server, kv, cursor, head, registry, shardThreads, shardLabels, homeShard, shardSize, quiet>>

(***************************************************************************)
(* getZeroAgent / getActiveShardId, called at lines 291-297.               *)
(***************************************************************************)
\* variant of Qualifies: no measured size is ever accepted
Qualifies_Never(size, minSize) == FALSE

\* variant of Qualifies: a shard exactly at the ceiling still qualifies
Qualifies_AtCeiling(size, minSize) == size <= MAX_SHARD_SIZE /\ size < minSize

\* variant of Qualifies: a size equal to the minimum replaces it
Qualifies_LastWins(size, minSize) == size < MAX_SHARD_SIZE /\ size <= minSize

\* line 359: does a measured size replace the current minimum
Qualifies(size, minSize) == size < MAX_SHARD_SIZE /\ size < minSize

\* line 299: the run has its agent; a provider other than google is refused
WithAgent(run, shardId) ==
  IF run.provider = "google"
  THEN [run EXCEPT !.pc = "history", !.agent = shardId]
  ELSE [run EXCEPT !.pc = "cleanup", !.agent = shardId,
                   !.error = "UnsupportedProvider", !.failed = @ \cup {"provider"}]

\* lines 343-350: the registry is listed
ListShards(r) ==
  /\ runs[r].pc = "agent"
  /\ runs' = [runs EXCEPT ![r] = [runs[r] EXCEPT
                !.allShards = registry,
                !.sizeLeft = SeqToSet(registry),
                !.selectedShardId = Null,
                !.minSize = POSITIVE_INFINITY,
                !.pc = IF Len(registry) = 0 THEN "insert" ELSE "sizes"]]
  /\ UNCHANGED <<call, engine, mailer, server, kv, cursor, head, registry, shardThreads, shardLabels, homeShard, shardSize, quiet>>

\* lines 355-368: one shard's size query completes; after the last one the
\* selected shard, if any, is returned
MeasureShard(r, id) ==
  /\ runs[r].pc = "sizes"
  /\ id \in runs[r].sizeLeft
  /\ LET size == shardSize[id]
         hit == Qualifies(size, runs[r].minSize)
         run == [runs[r] EXCEPT
                   !.sizeLeft = @ \ {id},
                   !.minSize = IF hit THEN size ELSE @,
                   !.selectedShardId = IF hit THEN id ELSE @,
                   !.measured = Append(@, <<id, size>>)]
     IN runs' = [runs EXCEPT ![r] =
                   IF run.sizeLeft # {} THEN run
                   ELSE IF run.selectedShardId # Null
                        THEN WithAgent(run, run.selectedShardId)
                        ELSE [run EXCEPT !.pc = "insert"]]
  /\ UNCHANGED <<call, engine, mailer, server, kv, cursor, head, registry, shardThreads, shardLabels, homeShard, shardSize, quiet>>

\* lines 347-349 and 370-372: a new shard is registered and returned
InsertShard(r) ==
  /\ runs[r].pc = "insert"
  /\ Len(registry) < MaxShards
  /\ LET newShardId == Len(registry) + 1
     IN /\ registry' = Append(registry, newShardId)
        /\ runs' = [runs EXCEPT ![r] =
                      WithAgent([runs[r] EXCEPT !.inserted = Append(@, newShardId)],
                                newShardId)]
  /\ UNCHANGED <<call, engine, mailer, server, kv, cursor, head, shardThreads, shardLabels, homeShard, shardSize, quiet>>

\* lines 291-297: a registry or shard call of getZeroAgent throws
AgentFails(r) ==
  /\ runs[r].pc \in {"agent", "sizes", "insert"}
  /\ runs' = [runs EXCEPT ![r] = Fail(r, "DatabaseError", "agent")]
  /\ UNCHANGED <<call, engine, mailer, server, kv, cursor, head, registry, shardThreads, shardLabels, homeShard, shardSize, quiet>>

(***************************************************************************)
(* getThread / getThreadEffect: the race over the registered shards.  Each *)
(* shard answers with the thread when it stores it; a shard in `failing`   *)
(* errors instead.  The result is the set of shard ids the race can yield; *)
(* Null stands for the thrown "not found".                                 *)
(***************************************************************************)
\* variant of getThread: the race is won by any registered shard
getThread_AnyShard(threadId, failing) ==
  IF registry = << >> THEN {Null} ELSE SeqToSet(registry)

getThread(threadId, failing) ==
  LET affirmative == {s \in SeqToSet(registry) \ failing : threadId \in shardThreads[s]}
  IN IF affirmative = {} THEN {Null} ELSE affirmative

(***************************************************************************)
(* History, cursor and diff: lines 302-375.                                *)
(***************************************************************************)
\* lines 302-312
GetHistory(r) ==
  /\ runs[r].pc = "history"
  /\ \/ runs' = [runs EXCEPT ![r] = [AgentReturned(runs[r]) EXCEPT
                   !.pc = "cursor", !.history = listHistory(runs[r].historyId)]]
     \/ runs' = [runs EXCEPT ![r] = Fail(r, "GmailApiError", "history")]
  /\ UNCHANGED <<call, engine, mailer, server, kv, cursor, head, registry, shardThreads, shardLabels, homeShard, shardSize, quiet>>

\* the run returns `result` without failing
Return(run, result, store) ==
  Finish([run EXCEPT !.result = result], "done", store)

\* variant of AfterThreads: the label changes are skipped
AfterThreads_SkipLabels(run) == [run EXCEPT !.pc = "release"]

\* lines 474-526: after the threads, the label changes, then the release
AfterThreads(run) ==
  [run EXCEPT !.pc = IF Len(run.labelQueue) > 0 THEN "labels" ELSE "release"]

\* lines 322-377: the early return, or the diff and where the run goes next
AfterCursor(run, store) ==
  IF Len(run.history) = 0
  THEN Return(run, "No history found", store)
  ELSE LET threadsAdded == threadsAddedOf(<< >>, run.history)
           withDiff == [run EXCEPT
                          !.labelQueue = threadLabelChangesOf(<< >>, run.history),
                          !.toSync = SeqToSet(threadsAdded)]
       IN IF Len(threadsAdded) > 0
          THEN [withDiff EXCEPT !.pc = "sync"]
          ELSE AfterThreads(withDiff)

\* the token a run leaves in `quiet`: its own when it completed undisturbed
QuietAfter(before, after) ==
  IF after.pc = "done" /\ before.alone THEN before.nextHistoryId ELSE Null

\* variant of CursorAfterPut: the put leaves the stored cursor as it was
CursorAfterPut_Stale(old, nextHistoryId) == old

\* variant of CursorAfterPut: the put stores the token after the incoming one
CursorAfterPut_Ahead(old, nextHistoryId) == nextHistoryId + 1

\* line 317: gmail_history_id.put(connectionId, nextHistoryId)
CursorAfterPut(old, nextHistoryId) == nextHistoryId

\* lines 314-327
PutCursor(r) ==
  /\ runs[r].pc = "cursor"
  /\ \/ /\ cursor' = CursorAfterPut(cursor, runs[r].nextHistoryId)
        /\ runs' = [runs EXCEPT ![r] =
                      AfterCursor([runs[r] EXCEPT !.wroteCursor = TRUE], kv)]
     \/ /\ cursor' = cursor
        /\ runs' = [runs EXCEPT ![r] = Fail(r, "WorkflowCreationFailed", "cursor")]
  /\ quiet' = QuietAfter(runs[r], runs'[r])
  /\ UNCHANGED <<call, engine, mailer, server, kv, head, registry, shardThreads, shardLabels, homeShard, shardSize>>

(***************************************************************************)
(* Refresh of the added threads: lines 377-414.  The syncThread calls run  *)
(* concurrently (Effect.allSuccesses, concurrency 6) and settle one by one.*)
(***************************************************************************)
\* the shard persists the thread it synced
StoreThread(store, shardId, threadId) ==
  [store EXCEPT ![shardId] = @ \cup {threadId}]

\* lines 401-417: all syncs have settled
AfterSync(run) ==
  LET syncedCount == Cardinality({x \in run.syncResults : x.success})
  IN IF syncedCount > 0
     THEN [run EXCEPT !.pc = "enrich",
                      !.toEnrich = {x.threadId : x \in run.syncResults}]
     ELSE AfterThreads(run)

\* one syncThread call has settled and left the run as `run`
SyncSettled(run) == IF run.toSync = {} THEN AfterSync(run) ELSE run

\* lines 383-388: agent.syncThread resolves, with success true or false
SyncThreadReturns(r, threadId, success) ==
  /\ runs[r].pc = "sync"
  /\ threadId \in runs[r].toSync
  /\ shardThreads' = IF success
                     THEN StoreThread(shardThreads, runs[r].agent, threadId)
                     ELSE shardThreads
  /\ homeShard' = IF success /\ homeShard[threadId] = Null
                  THEN [homeShard EXCEPT ![threadId] = runs[r].agent]
                  ELSE homeShard
  /\ runs' = [runs EXCEPT ![r] = SyncSettled([runs[r] EXCEPT
                !.toSync = @ \ {threadId},
                !.refreshed = @ \cup {threadId},
                !.syncResults = @ \cup {[threadId |-> threadId, success |-> success]}])]
  /\ UNCHANGED <<call, engine, mailer, server, kv, cursor, head, registry, shardLabels, shardSize, quiet>>

\* variant of SyncThrown: the first thrown refresh fails the whole run
SyncThrown_Abort(run, threadId) ==
  [run EXCEPT !.pc = "cleanup", !.error = "SyncFailed",
              !.toSync = @ \ {threadId}, !.refreshed = @ \cup {threadId},
              !.threw = @ \cup {threadId}, !.failed = @ \cup {"sync"}]

\* what a thrown syncThread does to the run: allSuccesses drops the failure
SyncThrown(run, threadId) ==
  SyncSettled([run EXCEPT !.toSync = @ \ {threadId},
                          !.refreshed = @ \cup {threadId},
                          !.threw = @ \cup {threadId},
                          !.failed = @ \cup {"sync"}])

\* lines 389-395: agent.syncThread throws
SyncThreadThrows(r, threadId) ==
  /\ runs[r].pc = "sync"
  /\ threadId \in runs[r].toSync
  /\ runs' = [runs EXCEPT ![r] = SyncThrown(runs[r], threadId)]
  /\ UNCHANGED <<call, engine, mailer, server, kv, cursor, head, registry, shardThreads, shardLabels, homeShard, shardSize, quiet>>

(***************************************************************************)
(* Enrichment: lines 435-454.  Each runThreadWorkflow settles on its own;  *)
(* a failure is dropped by allSuccesses.                                   *)
(***************************************************************************)
\* variant of ThreadWorkflowSettled: a failed thread workflow fails the run
ThreadWorkflowSettled_Abort(run, threadId, ok) ==
  IF ok
  THEN [run EXCEPT !.toEnrich = @ \ {threadId}, !.enriched = @ \cup {threadId},
                   !.pc = IF run.toEnrich = {threadId}
                          THEN (IF Len(run.labelQueue) > 0 THEN "labels" ELSE "release")
                          ELSE "enrich"]
  ELSE [run EXCEPT !.pc = "cleanup", !.error = "WorkflowCreationFailed",
                   !.toEnrich = @ \ {threadId}, !.enriched = @ \cup {threadId},
                   !.failed = @ \cup {"enrich"}]

\* what one settled runThreadWorkflow does to the run: allSuccesses drops a
\* failure, and after the last one the run goes on to the label changes
ThreadWorkflowSettled(run, threadId, ok) ==
  LET settled == [run EXCEPT
                    !.toEnrich = @ \ {threadId},
                    !.enriched = @ \cup {threadId},
                    !.failed = IF ok THEN @ ELSE @ \cup {"enrich"}]
  IN IF settled.toEnrich = {} THEN AfterThreads(settled) ELSE settled

RunThreadWorkflow(r, threadId, ok) ==
  /\ runs[r].pc = "enrich"
  /\ threadId \in runs[r].toEnrich
  /\ runs' = [runs EXCEPT ![r] = ThreadWorkflowSettled(runs[r], threadId, ok)]
  /\ UNCHANGED <<call, engine, mailer, server, kv, cursor, head, registry, shardThreads, shardLabels, homeShard, shardSize, quiet>>

(***************************************************************************)
(* Label changes: lines 480-503, one thread after the other.               *)
(***************************************************************************)
\* the labels of a thread's rows after add and remove have been applied
LabelsAfter(labels, addLabels, removeLabels) == (labels \cup addLabels) \ removeLabels

\* agent.modifyThreadLabelsInDB(threadId, addLabels, removeLabels) on a shard
\* a shard without rows of the thread has nothing to update
modifyThreadLabelsInDB(store, shardId, change) ==
  IF change.threadId \in shardThreads[shardId]
  THEN [store EXCEPT ![shardId][change.threadId] =
          LabelsAfter(@, change.addLabels, change.removeLabels)]
  ELSE store

\* variant of LabelsSettled: a failed label modification fails the run
LabelsSettled_Abort(run, change, ok) ==
  IF ok
  THEN [run EXCEPT !.labelQueue = Tail(@), !.labelled = @ \cup {change.threadId},
                   !.pc = IF Len(run.labelQueue) = 1 THEN "release" ELSE "labels"]
  ELSE [run EXCEPT !.labelQueue = Tail(@), !.labelFailed = @ \cup {change.threadId},
                   !.pc = "cleanup", !.error = "LabelModificationFailed"]

\* lines 489-501: what one settled label modification does to the run; orElse
\* absorbs a failure, and the loop goes on to the next thread
LabelsSettled(run, change, ok) ==
  LET rest == Tail(run.labelQueue)
  IN [run EXCEPT
        !.labelQueue = rest,
        !.labelled = IF ok THEN @ \cup {change.threadId} ELSE @,
        !.labelFailed = IF ok THEN @ ELSE @ \cup {change.threadId},
        !.pc = IF Len(rest) = 0 THEN "release" ELSE "labels"]

ModifyLabels(r, ok) ==
  /\ runs[r].pc = "labels"
  /\ LET change == Head(runs[r].labelQueue)
     IN /\ runs' = [runs EXCEPT ![r] = LabelsSettled(runs[r], change, ok)]
        /\ shardLabels' = IF ok
                          THEN modifyThreadLabelsInDB(shardLabels, runs[r].agent, change)
                          ELSE shardLabels
  /\ UNCHANGED <<call, engine, mailer, server, kv, cursor, head, registry, shardThreads, homeShard, shardSize, quiet>>

(***************************************************************************)
(* The two ends of a run that holds or met the lock.                       *)
(***************************************************************************)
\* lines 510-529: the lock key is deleted and the run completes
ReleaseLock(r) ==
  /\ runs[r].pc = "release"
  /\ kv' = bulkDeleteKeys(kv, {LockKey(r)})
  /\ runs' = [runs EXCEPT ![r] =
                Return(runs[r], "Zero workflow completed successfully", kv')]
  /\ quiet' = QuietAfter(runs[r], runs'[r])
  /\ UNCHANGED <<call, engine, mailer, server, cursor, head, registry, shardThreads, shardLabels, homeShard, shardSize>>

\* variant of CleanupStore: the error path forgets to delete the key
CleanupStore_KeepsKey(store, errorCleanupKey) == store

\* the store after catchAll's cleanup of errorCleanupKey
CleanupStore(store, errorCleanupKey) == bulkDeleteKeys(store, {errorCleanupKey})

\* lines 539-560: catchAll deletes the key and fails with the same error
CatchAll(r) ==
  /\ runs[r].pc = "cleanup"
  /\ kv' = CleanupStore(kv, LockKey(r))
  /\ runs' = [runs EXCEPT ![r] = Finish(runs[r], "failed", kv')]
  /\ quiet' = Null
  /\ UNCHANGED <<call, engine, mailer, server, cursor, head, registry, shardThreads, shardLabels, homeShard, shardSize>>

(***************************************************************************)
(* The specifications.  Under Spec up to MaxActive runs are in flight at   *)
(* the same time and the shards keep their size; under SpecShards runs     *)
(* follow one another and the shards change size in between.               *)
(***************************************************************************)
\* a notification is delivered while fewer than `limit` runs are in flight
Deliver(limit) ==
  /\ Cardinality({q \in Runs : Active(q)}) < limit
  /\ \E r \in Runs, historyId \in Tokens : runMainWorkflow(r, historyId)

RunStep ==
  \/ \E r \in Runs : AcquireLock(r)
  \/ \E r \in Runs : FindConnection(r)
  \/ \E r \in Runs : ListShards(r)
  \/ \E r \in Runs, id \in ShardIds : MeasureShard(r, id)
  \/ \E r \in Runs : InsertShard(r)
  \/ \E r \in Runs : AgentFails(r)
  \/ \E r \in Runs : GetHistory(r)
  \/ \E r \in Runs : PutCursor(r)
  \/ \E r \in Runs, t \in Threads, success \in BOOLEAN : SyncThreadReturns(r, t, success)
  \/ \E r \in Runs, t \in Threads : SyncThreadThrows(r, t)
  \/ \E r \in Runs, t \in Threads, ok \in BOOLEAN : RunThreadWorkflow(r, t, ok)
  \/ \E r \in Runs, ok \in BOOLEAN : ModifyLabels(r, ok)
  \/ \E r \in Runs : ReleaseLock(r)
  \/ \E r \in Runs : CatchAll(r)

Next ==
  \/ ProviderChange
  \/ Deliver(MaxActive)
  \/ RunStep

Spec == Init /\ [][Next]_vars

\* a shard's size changes while no run is in flight
ResizeBetweenRuns ==
  /\ \A q \in Runs : ~Active(q)
  /\ \E s \in ShardIds : ResizeShard(s)

NextShards ==
  \/ ProviderChange
  \/ ResizeBetweenRuns
  \/ Deliver(1)
  \/ RunStep

SpecShards == Init /\ [][NextShards]_vars

(***************************************************************************)
(* The router on its own: callers other than the coordinator (the bulk     *)
(* sync, the tools) ask getZeroAgent for the active shard, one call after  *)
(* the other, on a mailbox that may already have shards.  A call that has  *)
(* returned stays at pc "history" with the locals of getActiveShardId.     *)
(***************************************************************************)
\* the registries a mailbox can have: the shards registered so far, in order
Registries == {[i \in 1..n |-> i] : n \in 0..MaxShards}

InitRouter ==
  /\ kv = {}
  /\ head = 1
  /\ cursor = Null
  /\ registry \in Registries
  /\ shardThreads = [s \in ShardIds |-> {}]
  /\ shardLabels = [s \in ShardIds |-> [t \in Threads |-> {}]]
  /\ shardSize \in {f \in [ShardIds -> Sizes] :
                      \A s \in ShardIds : s > Len(registry) => f[s] = 0}
  /\ homeShard = [t \in Threads |-> Null]
  /\ runs = [r \in Runs |-> IdleRun]
  /\ quiet = Null
  /\ call = IdleCall
  /\ mailer = IdleMailer
  /\ server = IdleServer
  /\ engine = IdleEngine

\* sync-threads-workflow.ts line 141: a caller awaits getZeroAgent once the
\* previous call has returned
CallGetZeroAgent(r) ==
  /\ runs[r].pc = "idle"
  /\ \A q \in Runs : q < r => runs[q].pc = "history"
  /\ runs' = [runs EXCEPT ![r] = [IdleRun EXCEPT !.pc = "agent", !.provider = "google"]]
  /\ UNCHANGED <<call, engine, mailer, server, kv, cursor, head, registry, shardThreads, shardLabels, homeShard, shardSize, quiet>>

NextRouter ==
  \/ \E s \in ShardIds : ResizeShard(s)
  \/ \E r \in Runs : CallGetZeroAgent(r)
  \/ \E r \in Runs : ListShards(r)
  \/ \E r \in Runs, id \in ShardIds : MeasureShard(r, id)
  \/ \E r \in Runs : InsertShard(r)

SpecRouter == InitRouter /\ [][NextRouter]_vars

(***************************************************************************)
(* Properties of the coordinator and its lock.                             *)
(***************************************************************************)
\* the run is past lock acquisition and has not ended
HoldsLock(r) ==
  \/ runs[r].pc \in {"conn", "agent", "sizes", "insert", "history", "cursor",
                     "sync", "enrich", "labels", "release"}
  \/ runs[r].pc = "cleanup" /\ runs[r].error # "HistoryAlreadyProcessing"

\* C1: of the attempts in flight for one (mailbox, change token), at most one
\* is past lock acquisition; every other one ends as AlreadyProcessing.
C1_OneAttemptProceeds ==
  \A r1, r2 \in Runs :
    (r1 # r2 /\ runs[r1].historyId = runs[r2].historyId /\ HoldsLock(r1))
      => ~HoldsLock(r2)

\* C2: a run that took the lock and returned early on an empty change list
\* leaves no processing lock key behind.
C2_NoHistoryReleasesLock ==
  \A r \in Runs :
    (runs[r].pc = "done" /\ runs[r].result = "No history found") => ~runs[r].lockAtEnd

\* the steps whose failure ends the run, and the error each one raises
CoordinatorSteps == {"conn", "agent", "provider", "history", "cursor"}
ErrorOf(step) ==
  CASE step \in {"conn", "agent"} -> "DatabaseError"
    [] step = "provider" -> "UnsupportedProvider"
    [] step = "history" -> "GmailApiError"
    [] step = "cursor" -> "WorkflowCreationFailed"

\* C3 as stated: whatever step failed after the lock was acquired, a thrown
\* refresh or enrichment included, the run ends by re-raising the failure with
\* the lock key deleted.
C3_EveryFailureReraised ==
  \A r \in Runs :
    (Ended(r) /\ runs[r].failed # {}) => (runs[r].pc = "failed" /\ ~runs[r].lockAtEnd)

\* C3, amended: a failed connection lookup, agent lookup, history fetch or
\* cursor write, or an unsupported provider, sends the run to the cleanup with
\* that error, and the run ends failed with the same error and the lock key
\* deleted; a thrown refresh or enrichment is absorbed, and the run it happened
\* in completes with the lock key deleted.
C3_FailureCleansLock ==
  \A r \in Runs :
    /\ (runs[r].failed \cap CoordinatorSteps # {}) =>
         /\ runs[r].pc \in {"cleanup", "failed"}
         /\ \E step \in CoordinatorSteps :
              runs[r].failed = {step} /\ runs[r].error = ErrorOf(step)
         /\ runs[r].pc = "failed" => ~runs[r].lockAtEnd
    /\ (runs[r].pc \in {"cleanup", "failed"}
          /\ runs[r].error # "HistoryAlreadyProcessing") =>
         runs[r].failed \cap CoordinatorSteps # {}
    /\ (Ended(r) /\ runs[r].failed # {} /\ runs[r].failed \subseteq {"sync", "enrich"}) =>
         /\ runs[r].pc = "done"
         /\ runs[r].result = "Zero workflow completed successfully"
         /\ ~runs[r].lockAtEnd

\* a history fetch failed after the lock was taken and the run has ended
C3_Witness ==
  \E r \in Runs :
    runs[r].pc = "failed" /\ runs[r].failed = {"history"} /\ ~runs[r].lockAtEnd

C5_CursorWrittenBeforeProcessing ==
  [][\A r \in Runs :
       /\ (runs[r].pc = "cursor" /\ runs'[r].pc \notin {"cursor", "cleanup"}) =>
            (cursor' = runs[r].nextHistoryId /\ runs'[r].wroteCursor)
       /\ (runs[r].pc # "cursor" /\ runs'[r] # runs[r]) => cursor' = cursor
       /\ (runs[r].pc # "cleanup" /\ runs'[r].pc = "cleanup") => cursor' = cursor
       /\ (\/ runs'[r].pc \in {"sync", "enrich", "labels", "release"}
           \/ runs'[r].refreshed # {} \/ runs'[r].enriched # {}
           \/ runs'[r].labelled # {}) => runs'[r].wroteCursor
       /\ (runs'[r].wroteCursor /\ ~runs[r].wroteCursor) =>
            (runs[r].pc = "cursor" /\ runs[r].refreshed = {}
               /\ runs[r].enriched = {} /\ runs[r].labelled = {})
    ]_vars

\* a run refreshes a thread while the cursor holds its incoming token
C5_Witness ==
  \E r \in Runs :
    /\ runs[r].pc = "sync" /\ runs[r].refreshed # {} /\ runs[r].wroteCursor
    /\ cursor = runs[r].nextHistoryId /\ cursor # runs[r].historyId


(***************************************************************************)
(* Properties of the refresh of the added threads.                         *)
(***************************************************************************)
\* C6: a thread whose refresh threw is not in the successful set; the refresh
\* of every other added thread is still attempted; the run goes on to the
\* label changes and the lock release and completes.
C6_RefreshFailureIsolated ==
  \A r \in Runs :
    /\ runs[r].threw \cap {x.threadId : x \in runs[r].syncResults} = {}
    /\ runs[r].threw # {} =>
         /\ runs[r].pc \in {"sync", "enrich", "labels", "release"}
         /\ runs[r].pc # "sync" =>
              /\ runs[r].toSync = {}
              /\ runs[r].refreshed = SeqToSet(threadsAddedOf(<< >>, runs[r].history))
              /\ {x.threadId : x \in runs[r].syncResults} = runs[r].refreshed \ runs[r].threw
         /\ runs[r].pc = "release" => runs[r].labelQueue = << >>
    /\ "sync" \in runs[r].failed =>
         /\ runs[r].pc \in {"sync", "enrich", "labels", "release", "done"}
         /\ runs[r].pc = "done" =>
              /\ runs[r].result = "Zero workflow completed successfully"
              /\ ~runs[r].lockAtEnd

\* one refresh threw, a sibling's succeeded, and the run is at the lock release
C6_Witness ==
  \E r \in Runs :
    /\ runs[r].pc = "release" /\ runs[r].threw # {}
    /\ \E x \in runs[r].syncResults : x.success /\ x.threadId \notin runs[r].threw
    /\ runs[r].labelled # {}

(***************************************************************************)
(* Properties of the shards.                                               *)
(***************************************************************************)
\* C7: every thread is stored in at most one shard.
C7_OneShardPerThread ==
  \A t \in Threads : Cardinality({s \in ShardIds : t \in shardThreads[s]}) <= 1

\* C8: once a thread has been written to a shard, getThread resolves it to
\* that shard and no other.
C8_ResolveIsSticky ==
  \A t \in Threads : homeShard[t] # Null => getThread(t, {}) = {homeShard[t]}

\* getActiveShardId has just returned to run r: its locals are still there
Returned(r) ==
  /\ runs[r].agent # Null
  /\ Len(runs[r].measured) + Len(runs[r].inserted) > 0

\* the size getActiveShardId read for shard id
MeasuredSize(r, id) ==
  LET i == CHOOSE i \in 1..Len(runs[r].measured) : runs[r].measured[i][1] = id
  IN runs[r].measured[i][2]

\* the shards whose measured size is below the ceiling, and the smallest of them
BelowCeiling(r) ==
  {id \in SeqToSet(runs[r].allShards) : MeasuredSize(r, id) < MAX_SHARD_SIZE}
Smallest(r) ==
  {id \in BelowCeiling(r) :
     \A other \in BelowCeiling(r) : MeasuredSize(r, id) <= MeasuredSize(r, other)}

\* the position of shard id in the registry's enumeration, and in the order
\* the size queries completed
EnumIndex(r, id) == CHOOSE i \in 1..Len(runs[r].allShards) : runs[r].allShards[i] = id
DoneIndex(r, id) == CHOOSE i \in 1..Len(runs[r].measured) : runs[r].measured[i][1] = id

\* C9: the shard getActiveShardId returns was not measured at or above the
\* ceiling; when every registered shard was measured at or above the ceiling,
\* the call registered exactly one new shard and returned it.
C9_NeverAFullShard ==
  \A r \in Runs :
    Returned(r) =>
      /\ runs[r].agent \in SeqToSet(runs[r].allShards) =>
           MeasuredSize(r, runs[r].agent) < MAX_SHARD_SIZE
      /\ (Len(runs[r].allShards) > 0 /\ BelowCeiling(r) = {}) =>
           /\ Len(runs[r].inserted) = 1
           /\ runs[r].agent = runs[r].inserted[1]
           /\ runs[r].agent \notin SeqToSet(runs[r].allShards)
           /\ registry = Append(runs[r].allShards, runs[r].agent)

\* the only registered shard was measured at the ceiling and a second one was
\* registered and returned
C9_Witness ==
  \E r \in Runs :
    /\ Returned(r)
    /\ Len(runs[r].allShards) > 0 /\ BelowCeiling(r) = {}
    /\ runs[r].inserted = <<runs[r].agent>>

Successive(r) ==
  /\ r > 1 /\ Returned(r) /\ Returned(r - 1)
  /\ BelowCeiling(r - 1) # {}
  /\ \A id \in SeqToSet(runs[r - 1].allShards) :
       MeasuredSize(r, id) = MeasuredSize(r - 1, id)

ReportsAdded(history, t) ==
  \E k \in 1..Len(history) : <<t, FALSE>> \in SeqToSet(history[k].messagesAdded)

\* the change list reports label l added to / removed from thread t
ReportsLabelAdded(history, t, l) ==
  \E k \in 1..Len(history) :
    \E c \in SeqToSet(history[k].labelsAdded) : c[1] = t /\ l \in c[2]
ReportsLabelRemoved(history, t, l) ==
  \E k \in 1..Len(history) :
    \E c \in SeqToSet(history[k].labelsRemoved) : c[1] = t /\ l \in c[2]

\* run r is the only run the mailbox has seen, its change list reports T1
\* added with label X added, and no call of the run has failed
FirstNotification(r) ==
  /\ \A q \in Runs \ {r} : runs[q].pc = "idle"
  /\ ReportsAdded(runs[r].history, "T1")
  /\ ReportsLabelAdded(runs[r].history, "T1", "X")
  /\ ~ReportsLabelRemoved(runs[r].history, "T1", "X")
  /\ runs[r].failed = {} /\ runs[r].labelFailed = {}
  /\ \A x \in runs[r].syncResults : x.success

\* C12: when the only run of a mailbox that had no shard, reporting T1 added
\* with label X, completes, one shard is registered, it stores T1 with label
\* X, the run's lock key is absent and the cursor is the notification's token.
C12_FirstNotificationOutcome ==
  [][\A r \in Runs :
       (runs[r].pc = "release" /\ runs'[r].pc = "done" /\ FirstNotification(r)) =>
         /\ Len(registry') = 1
         /\ "T1" \in shardThreads'[registry'[1]]
         /\ "X" \in shardLabels'[registry'[1]]["T1"]
         /\ LockKey(r) \notin kv'
         /\ cursor' = runs[r].nextHistoryId
         /\ runs'[r].result = "Zero workflow completed successfully"
    ]_vars

\* the first run has completed and left T1 with label X in the one shard
C12_Witness ==
  /\ runs[1].pc = "done" /\ runs[1].failed = {}
  /\ runs[1].result = "Zero workflow completed successfully"
  /\ \A q \in Runs \ {1} : runs[q].pc = "idle"
  /\ registry = <<1>> /\ "T1" \in shardThreads[1] /\ "X" \in shardLabels[1]["T1"]
  /\ kv = {} /\ cursor = head

(***************************************************************************)
(* Where the label changes land.                                           *)
(***************************************************************************)
\* the registered shards that store thread t
Owners(t) == {s \in SeqToSet(registry) : t \in shardThreads[s]}

\* C13: a thread's label changes are applied to a shard that stores the
\* thread: while a run is in flight, the shard it has applied a stored
\* thread's changes to is one of the thread's owners.
C13_LabelsOnOwningShard ==
  \A r \in Runs : \A t \in runs[r].labelled :
    (Active(r) /\ Owners(t) # {}) => runs[r].agent \in Owners(t)

(***************************************************************************)
(* One batch on its own: a run that holds its lock, has its agent and has  *)
(* listed the provider's changes, from the cursor write to its end.  The   *)
(* change list is drawn from the lists of at most MaxHistory entries made  *)
(* of the message and label records below; the agent's shard already       *)
(* stores some threads.                                                    *)
(***************************************************************************)
\* longest change list of a batch
MaxHistory == 2

\* historyItem.messagesAdded: <<threadId, isDraft>>
MessageLists ==
  { << >>,
    << <<"T1", FALSE>> >>,
    << <<"T1", TRUE>> >>,
    << <<"T1", TRUE>>, <<"T2", FALSE>> >> }

\* historyItem.labelsAdded: <<threadId, labelIds>>
AddedLabelLists ==
  { << >>,
    << <<"T1", {"X"}>> >>,
    << <<"T1", {"X"}>>, <<"T2", {"Y"}>> >> }

\* historyItem.labelsRemoved: <<threadId, labelIds>>
RemovedLabelLists ==
  { << >>,
    << <<"T1", {"X"}>> >>,
    << <<"T2", {"X", "Y"}>> >> }

HistoryItems ==
  [messagesAdded : MessageLists, labelsAdded : AddedLabelLists,
   labelsRemoved : RemovedLabelLists]

Histories == UNION {[1..n -> HistoryItems] : n \in 0..MaxHistory}

InitBatch ==
  /\ kv = {historyProcessingKey(connectionId, 1)}
  /\ head = 2
  /\ cursor = 1
  /\ registry = <<1>>
  /\ \E stored \in {{"T1"}, Threads}, labels \in {{}, {"X"}} :
       /\ shardThreads = [s \in ShardIds |-> IF s = 1 THEN stored ELSE {}]
       /\ shardLabels = [s \in ShardIds |->
                           [t \in Threads |-> IF s = 1 /\ t \in stored THEN labels ELSE {}]]
       /\ homeShard = [t \in Threads |-> IF t \in stored THEN 1 ELSE Null]
  /\ shardSize = [s \in ShardIds |-> 0]
  /\ \E history \in Histories :
       runs = [r \in Runs |->
                 IF r = 1
                 THEN [IdleRun EXCEPT !.pc = "cursor", !.historyId = 1,
                                      !.nextHistoryId = 2, !.provider = "google",
                                      !.agent = 1, !.history = history, !.alone = TRUE]
                 ELSE IdleRun]
  /\ quiet = Null
  /\ call = IdleCall
  /\ mailer = IdleMailer
  /\ server = IdleServer
  /\ engine = IdleEngine

NextBatch ==
  \/ \E r \in Runs : PutCursor(r)
  \/ \E r \in Runs, t \in Threads, success \in BOOLEAN : SyncThreadReturns(r, t, success)
  \/ \E r \in Runs, t \in Threads : SyncThreadThrows(r, t)
  \/ \E r \in Runs, t \in Threads, ok \in BOOLEAN : RunThreadWorkflow(r, t, ok)
  \/ \E r \in Runs, ok \in BOOLEAN : ModifyLabels(r, ok)
  \/ \E r \in Runs : ReleaseLock(r)
  \/ \E r \in Runs : CatchAll(r)

SpecBatch == InitBatch /\ [][NextBatch]_vars

(***************************************************************************)
(* Failures inside a batch.                                                *)
(***************************************************************************)
\* the per-thread label diff of the run's change list
DiffOf(run) == SeqToSet(threadLabelChangesOf(<< >>, run.history))

\* the diff of thread t is in effect in shard s
DiffApplied(s, change) ==
  /\ change.addLabels \ change.removeLabels \subseteq shardLabels[s][change.threadId]
  /\ shardLabels[s][change.threadId] \cap change.removeLabels = {}

\* C14: a failed label modification of one thread stops neither the other
\* threads' modifications nor the run: every modification leaves the run in
\* the label loop or at the release, at the release every thread of the diff
\* has been tried and the diffs that did not fail are in effect, and the run
\* then deletes its lock key and completes.
C14_LabelFailureIsolated ==
  [][\A r \in Runs :
       /\ (runs[r].pc = "labels" /\ runs'[r] # runs[r]) =>
            /\ runs'[r].pc \in {"labels", "release"}
            /\ runs'[r].pc = "release" =>
                 /\ runs'[r].labelled \cup runs'[r].labelFailed =
                      {c.threadId : c \in DiffOf(runs[r])}
                 /\ \A c \in DiffOf(runs[r]) :
                      (c.threadId \in runs'[r].labelled \ runs'[r].labelFailed
                         /\ c.threadId \in shardThreads'[runs[r].agent])
                      => DiffApplied(runs[r].agent, c)'
       /\ (runs[r].pc = "release" /\ runs'[r] # runs[r]) =>
            /\ runs'[r].pc = "done"
            /\ runs'[r].result = "Zero workflow completed successfully"
            /\ LockKey(r) \notin kv'
    ]_vars

\* T1's label modification has failed, T2's was applied after it, and the run
\* is about to release its lock
C14_Witness ==
  \E r \in Runs :
    /\ runs[r].pc = "release"
    /\ runs[r].labelFailed = {"T1"} /\ runs[r].labelled = {"T2"}
    /\ "T2" \in shardThreads[runs[r].agent]
    /\ "Y" \in shardLabels[runs[r].agent]["T2"]
    /\ LockKey(r) \in kv

\* the threads whose syncThread resolved reporting success
Synced(run) == {x.threadId : x \in {y \in run.syncResults : y.success}}

\* C15: the thread workflow (enrichment) is invoked for the threads whose
\* refresh succeeded and for no other thread.
C15_EnrichOnlyRefreshed ==
  \A r \in Runs : runs[r].enriched \cup runs[r].toEnrich \subseteq Synced(runs[r])

\* C16: a failed thread workflow of one thread stops neither the other
\* threads' workflows nor the run: the run stays in the enrichment until every
\* refreshed thread had its workflow invoked, goes on to the label changes
\* (or to the release when there are none), and a run that met such a failure
\* ends completed with its lock key deleted.
C16_EnrichFailureIsolated ==
  [][\A r \in Runs :
       /\ (runs[r].pc = "enrich" /\ runs'[r] # runs[r]) =>
            /\ runs'[r].pc \in {"enrich", "labels", "release"}
            /\ runs'[r].pc # "enrich" =>
                 /\ runs'[r].enriched = {x.threadId : x \in runs[r].syncResults}
                 /\ runs'[r].pc = "labels" <=> DiffOf(runs[r]) # {}
       /\ "enrich" \in runs'[r].failed =>
            /\ runs'[r].pc \notin {"cleanup", "failed"}
            /\ runs'[r].pc = "done" =>
                 /\ runs'[r].result = "Zero workflow completed successfully"
                 /\ ~runs'[r].lockAtEnd
    ]_vars

\* T1's thread workflow has failed, T2's was run as well, a label change was
\* applied afterwards and the run is about to release its lock
C16_Witness ==
  \E r \in Runs :
    /\ runs[r].pc = "release"
    /\ "enrich" \in runs[r].failed
    /\ runs[r].enriched = {"T1", "T2"}
    /\ runs[r].labelled # {}

(***************************************************************************)
(* An attempt that meets the lock.                                         *)
(***************************************************************************)
\* C17: an attempt that finds its lock key present fails with
\* HistoryAlreadyProcessing and, from the lock check to its end, lists no
\* history, writes no cursor, refreshes and enriches no thread and changes no
\* label.
C17_RejectedAttemptDoesNothing ==
  [][\A r \in Runs :
       /\ (runs[r].pc = "lock" /\ runs'[r].pc # "lock" /\ LockKey(r) \in kv) =>
            /\ runs'[r].pc = "cleanup"
            /\ runs'[r].error = "HistoryAlreadyProcessing"
            /\ UNCHANGED <<cursor, registry, shardThreads, shardLabels>>
       /\ (runs[r].error = "HistoryAlreadyProcessing" /\ runs'[r].pc # runs[r].pc) =>
            /\ runs[r].pc = "cleanup" /\ runs'[r].pc = "failed"
            /\ runs'[r].error = "HistoryAlreadyProcessing"
            /\ runs[r].history = << >> /\ ~runs[r].wroteCursor
            /\ runs[r].refreshed = {} /\ runs[r].enriched = {}
            /\ runs[r].labelled = {} /\ runs[r].labelFailed = {}
            /\ UNCHANGED <<cursor, registry, shardThreads, shardLabels>>
    ]_vars

\* a run has ended with HistoryAlreadyProcessing while the run that holds the
\* lock is still at work
C17_Witness ==
  \E r, q \in Runs :
    /\ runs[r].pc = "failed" /\ runs[r].error = "HistoryAlreadyProcessing"
    /\ runs[q].pc \in {"sync", "enrich", "labels"}

(***************************************************************************)
(* The diff of a batch.                                                    *)
(***************************************************************************)
\* the run has computed its diff and not ended yet
HasDiff(run) == run.pc \in {"sync", "enrich", "labels", "release"}

\* C18: a thread is in the added set exactly when the change list reports a
\* new message of it that is not a draft; the added set is what the run
\* refreshes.
C18_AddedIffNotDraft ==
  \A r \in Runs :
    HasDiff(runs[r]) =>
      /\ SeqToSet(threadsAddedOf(<< >>, runs[r].history)) =
           {t \in Threads : ReportsAdded(runs[r].history, t)}
      /\ runs[r].toSync \cup runs[r].refreshed =
           {t \in Threads : ReportsAdded(runs[r].history, t)}

\* the change list reports a draft of T1 and a message of T2, and the run
\* refreshes T2 only
C18_Witness ==
  \E r \in Runs :
    /\ runs[r].pc = "sync" /\ runs[r].toSync = {"T2"} /\ runs[r].refreshed = {}
    /\ \E k \in 1..Len(runs[r].history) :
         <<"T1", TRUE>> \in SeqToSet(runs[r].history[k].messagesAdded)

\* the change list reports label l added to thread t and, in a later entry,
\* removed from it
AddedThenRemoved(history, t, l) ==
  \E k, m \in 1..Len(history) :
    /\ k < m
    /\ ReportsLabelAdded(<<history[k]>>, t, l)
    /\ ReportsLabelRemoved(<<history[m]>>, t, l)

\* C19: a label added to a thread and removed from it later in the same batch
\* is not in the addLabels of the thread's diff the run applies.
C19_AddThenRemoveCancels ==
  \A r \in Runs :
    HasDiff(runs[r]) =>
      \A c \in DiffOf(runs[r]) : \A l \in Labels :
        AddedThenRemoved(runs[r].history, c.threadId, l) => l \notin c.addLabels

(***************************************************************************)
(* getThread on its own: callers resolve threads one call after the other, *)
(* on a mailbox that may already have shards, while the shards go on       *)
(* storing threads between the calls.                                      *)
(***************************************************************************)
InitResolve ==
  /\ kv = {}
  /\ head = 1
  /\ cursor = Null
  /\ registry \in Registries
  /\ shardThreads = [s \in ShardIds |-> {}]
  /\ shardLabels = [s \in ShardIds |-> [t \in Threads |-> {}]]
  /\ shardSize = [s \in ShardIds |-> 0]
  /\ homeShard = [t \in Threads |-> Null]
  /\ runs = [r \in Runs |-> IdleRun]
  /\ quiet = Null
  /\ call = IdleCall
  /\ mailer = IdleMailer
  /\ server = IdleServer
  /\ engine = IdleEngine

\* a registered shard stores a thread it did not have
WriteThread(s, t) ==
  /\ s \in SeqToSet(registry)
  /\ t \notin shardThreads[s]
  /\ shardThreads' = StoreThread(shardThreads, s, t)
  /\ homeShard' = IF homeShard[t] = Null THEN [homeShard EXCEPT ![t] = s] ELSE homeShard
  /\ UNCHANGED <<call, engine, mailer, server, kv, cursor, head, registry, shardLabels, shardSize, runs, quiet>>

\* attachments.ts lines 244-324: getThread(connectionId, threadId).  `listed`
\* is whether the registry could be read (lines 250-259), `failing` the shards
\* whose client or query errors (lines 267-276).
CallGetThread(r, threadId, failing, listed) ==
  /\ runs[r].pc = "idle"
  /\ \A q \in Runs : q < r => runs[q].pc # "idle"
  /\ failing \subseteq SeqToSet(registry)
  /\ IF ~listed
     THEN /\ failing = {}
          /\ runs' = [runs EXCEPT ![r] = [IdleRun EXCEPT
                        !.pc = "failed", !.threadId = threadId,
                        !.error = "Failed to list shards"]]
     ELSE \E shardId \in getThread(threadId, failing) :
            runs' = [runs EXCEPT ![r] = [IdleRun EXCEPT
                       !.pc = IF shardId = Null THEN "failed" ELSE "done",
                       !.threadId = threadId,
                       !.allShards = registry,
                       !.unanswered = failing,
                       !.agent = shardId,
                       !.error = IF shardId = Null THEN "Thread not found" ELSE ""]]
  /\ UNCHANGED <<call, engine, mailer, server, kv, cursor, head, registry, shardThreads, shardLabels, homeShard, shardSize, quiet>>

NextResolve ==
  \/ \E s \in ShardIds, t \in Threads : WriteThread(s, t)
  \/ \E r \in Runs, t \in Threads, failing \in SUBSET ShardIds, listed \in BOOLEAN :
       CallGetThread(r, t, failing, listed)

SpecResolve == InitResolve /\ [][NextResolve]_vars

\* the shards that answered the call of `run` with the thread
Affirmative(run) ==
  {s \in SeqToSet(run.allShards) \ run.unanswered : run.threadId \in shardThreads[s]}

\* the call of `run` failed with a thread-not-found error
ThreadNotFound(run) == run.pc = "failed" /\ run.error = "Thread not found"

\* C20 as stated: a call fails with thread-not-found exactly when no shard
\* answers affirmatively, and a call that succeeds returns a shard that holds
\* the thread.
C20_NotFoundIffNoShardAnswers ==
  [][\A r \in Runs :
       (runs[r].pc = "idle" /\ runs'[r].pc # "idle") =>
         /\ ThreadNotFound(runs'[r]) <=> Affirmative(runs'[r]) = {}
         /\ runs'[r].pc = "done" => runs'[r].threadId \in shardThreads[runs'[r].agent]
    ]_vars

\* C20 amended: when the registry can be read, a call fails with
\* thread-not-found exactly when no shard answers affirmatively (no shard is
\* registered, every shard lacks the thread or fails); a call that succeeds
\* returns a registered shard that answered and holds the thread; when the
\* registry cannot be read the call fails with the registry's error.
C20_NotFoundIffRegistryReadAndNoShardAnswers ==
  [][\A r \in Runs :
       (runs[r].pc = "idle" /\ runs'[r].pc # "idle") =>
         /\ runs'[r].pc \in {"done", "failed"}
         /\ ThreadNotFound(runs'[r]) <=>
              (runs'[r].error # "Failed to list shards" /\ Affirmative(runs'[r]) = {})
         /\ runs'[r].pc = "failed" =>
              runs'[r].error \in {"Thread not found", "Failed to list shards"}
         /\ runs'[r].pc = "done" =>
              /\ runs'[r].agent \in Affirmative(runs'[r])
              /\ runs'[r].threadId \in shardThreads[runs'[r].agent]
    ]_vars

\* one call found T1 in shard 2 while shard 1 failed, one call found no shard
\* answering although shard 2 stores T1, and one call could not read the registry
C20_Witness ==
  \E a, b, c \in Runs :
    /\ runs[a].pc = "done" /\ runs[a].threadId = "T1" /\ runs[a].agent = 2
    /\ runs[a].unanswered = {1}
    /\ ThreadNotFound(runs[b]) /\ runs[b].threadId = "T1" /\ runs[b].unanswered = {1, 2}
    /\ "T1" \in shardThreads[2]
    /\ runs[c].pc = "failed" /\ runs[c].error = "Failed to list shards"

(***************************************************************************)
(* The scatter-gather primitives of server-utils, one call at a time over  *)
(* the registered shards.  A shard's operation either fails or returns a   *)
(* value; the caller's functions are those of getDatabaseSize (the sum of  *)
(* the shard results) and of getThreadEffect (fallback null).              *)
(***************************************************************************)
Kinds == {"gather", "race", "sequential"}
\* what a shard's operation can return
Values == 1..4
\* the outcomes of a shard's effect: getShardClient or the operation fails
\* (no value), or the operation returns a value
Failure == Null
Outcomes == {Failure} \cup Values

RECURSIVE Sum(_)
\* (sizes) => sizes.reduce((total, shardSize) => total + shardSize, 0)
Sum(q) == IF q = << >> THEN 0 ELSE Head(q) + Sum(Tail(q))

\* the caller's functions
aggregator(results) == Sum(results)
fallbackValue == Null
initialAccumulator == 0
finalizer(accumulator) == accumulator + 100

\* variant of Listed: an empty shard list is an error
Listed_EmptyFails(c, shards) ==
  IF Len(shards) = 0
  THEN [c EXCEPT !.pc = "failed", !.listed = TRUE, !.error = "No shards"]
  ELSE [c EXCEPT !.pc = "shards", !.allShards = shards, !.listed = TRUE,
                 !.pending = IF c.kind = "sequential" THEN {} ELSE SeqToSet(shards),
                 !.results = [k \in 1..Len(shards) |-> Null],
                 !.accumulator = initialAccumulator]

\* the call after listShards returned `shards`: attachments.ts lines 136-157
\* (Effect.all of no effect is the empty list), 215-240, 261-265
Listed(c, shards) ==
  LET started == [c EXCEPT
                    !.allShards = shards, !.listed = TRUE,
                    !.pending = IF c.kind = "sequential" THEN {} ELSE SeqToSet(shards),
                    !.results = [k \in 1..Len(shards) |-> Null],
                    !.accumulator = initialAccumulator]
  IN IF Len(shards) > 0 THEN [started EXCEPT !.pc = "shards"]
     ELSE IF c.kind = "gather"
          THEN [started EXCEPT !.pc = "done", !.merged = TRUE,
                               !.result = aggregator(<< >>)]
     ELSE IF c.kind = "race"
          THEN [started EXCEPT !.pc = "done", !.result = fallbackValue,
                               !.shardId = Null]
     ELSE [started EXCEPT !.pc = "done", !.merged = TRUE,
                          !.result = finalizer(initialAccumulator)]

\* position of shard id in the listed shards
PositionOf(c, id) == CHOOSE k \in 1..Len(c.allShards) : c.allShards[k] = id

\* the results of the shards that have settled with a value, in shard order
RECURSIVE Settled(_)
Settled(q) ==
  IF q = << >> THEN << >>
  ELSE IF Head(q) = Null THEN Settled(Tail(q)) ELSE <<Head(q)>> \o Settled(Tail(q))

\* variant of GatherSettled: a failed shard is left out of the merge
GatherSettled_Partial(c, id, outcome) ==
  LET after == [c EXCEPT
                  !.pending = @ \ {id},
                  !.failedShards = IF outcome = Failure THEN @ \cup {id} ELSE @,
                  !.results = IF outcome = Failure THEN @
                              ELSE [@ EXCEPT ![PositionOf(c, id)] = outcome]]
  IN IF after.pending # {} THEN after
     ELSE [after EXCEPT !.pc = "done", !.merged = TRUE,
                        !.result = aggregator(Settled(after.results))]

\* lines 136-157: one shard effect of Effect.all settles.  The first failure
\* fails the call; after the last success the aggregator is applied
GatherSettled(c, id, outcome) ==
  IF outcome = Failure
  THEN [c EXCEPT !.pc = "failed", !.pending = {},
                 !.failedShards = @ \cup {id},
                 !.error = "Failed to execute operations across shards"]
  ELSE LET after == [c EXCEPT !.pending = @ \ {id},
                              !.results = [@ EXCEPT ![PositionOf(c, id)] = outcome]]
       IN IF after.pending # {} THEN after
          ELSE [after EXCEPT !.pc = "done", !.merged = TRUE,
                             !.result = aggregator(after.results)]

\* variant of RaceSettled: when every shard has failed the call fails
RaceSettled_Throws(c, id, outcome) ==
  IF outcome = Failure
  THEN LET after == [c EXCEPT !.pending = @ \ {id}, !.failedShards = @ \cup {id}]
       IN IF after.pending # {} THEN after
          ELSE [after EXCEPT !.pc = "failed", !.error = "All fibers failed"]
  ELSE [c EXCEPT !.pc = "done", !.pending = {}, !.result = outcome, !.shardId = id]

\* lines 265-284: one shard effect of Effect.raceAll settles.  The first
\* success wins; when all have failed catchAll returns the fallback
RaceSettled(c, id, outcome) ==
  IF outcome = Failure
  THEN LET after == [c EXCEPT !.pending = @ \ {id}, !.failedShards = @ \cup {id}]
       IN IF after.pending # {} THEN after
          ELSE [after EXCEPT !.pc = "done", !.result = fallbackValue, !.shardId = Null]
  ELSE [c EXCEPT !.pc = "done", !.pending = {}, !.result = outcome, !.shardId = id]

\* variant of SequentialSettled: the loop goes on after shouldContinue = false
SequentialSettled_IgnoresFlag(c, outcome, shouldContinue) ==
  LET k == c.index + 1
      visited == [c EXCEPT !.index = k,
                           !.invoked = Append(@, c.allShards[k]),
                           !.passed = Append(@, c.accumulator),
                           !.stopped = @ \/ (outcome # Failure /\ ~shouldContinue)]
  IN IF outcome = Failure
     THEN [visited EXCEPT !.pc = "failed", !.failedShards = @ \cup {c.allShards[k]},
                          !.error = "Operation failed on shard"]
     ELSE LET after == [visited EXCEPT !.accumulator = @ + outcome,
                                       !.produced = Append(@, c.accumulator + outcome)]
          IN IF k < Len(c.allShards) THEN after
             ELSE [after EXCEPT !.pc = "done", !.merged = TRUE,
                                !.result = finalizer(after.accumulator)]

\* lines 217-240: the next shard of the loop is visited with the accumulator.
\* A failure fails the call (catchAll fails again with a new Error); the loop
\* ends after the last shard or when shouldContinue is false
SequentialSettled(c, outcome, shouldContinue) ==
  LET k == c.index + 1
      visited == [c EXCEPT !.index = k,
                           !.invoked = Append(@, c.allShards[k]),
                           !.passed = Append(@, c.accumulator),
                           !.stopped = @ \/ (outcome # Failure /\ ~shouldContinue)]
  IN IF outcome = Failure
     THEN [visited EXCEPT !.pc = "failed", !.failedShards = @ \cup {c.allShards[k]},
                          !.error = "Operation failed on shard"]
     ELSE LET after == [visited EXCEPT !.accumulator = @ + outcome,
                                       !.produced = Append(@, c.accumulator + outcome)]
          IN IF shouldContinue /\ k < Len(c.allShards) THEN after
             ELSE [after EXCEPT !.pc = "done", !.merged = TRUE,
                                !.result = finalizer(after.accumulator)]

InitScatter ==
  /\ kv = {}
  /\ head = 1
  /\ cursor = Null
  /\ registry \in Registries
  /\ shardThreads = [s \in ShardIds |-> {}]
  /\ shardLabels = [s \in ShardIds |-> [t \in Threads |-> {}]]
  /\ shardSize = [s \in ShardIds |-> 0]
  /\ homeShard = [t \in Threads |-> Null]
  /\ runs = [r \in Runs |-> IdleRun]
  /\ quiet = Null
  /\ call = IdleCall
  /\ mailer = IdleMailer
  /\ server = IdleServer
  /\ engine = IdleEngine

ScatterFrame ==
  UNCHANGED <<kv, cursor, head, registry, shardThreads, shardLabels, shardSize,
              homeShard, runs, quiet, engine, mailer, server>>

\* a caller invokes one of the primitives once the previous call has ended
CallPrimitive(kind) ==
  /\ call.pc \in {"idle", "done", "failed"}
  /\ call' = [IdleCall EXCEPT !.pc = "registry", !.kind = kind]
  /\ ScatterFrame

\* lines 125-134, 204-213, 250-259: the registry is read, or cannot be
ReadRegistry(ok) ==
  /\ call.pc = "registry"
  /\ call' = IF ok THEN Listed(call, registry)
             ELSE [call EXCEPT !.pc = "failed", !.error = "Failed to list shards"]
  /\ ScatterFrame

GatherShardSettles(id, outcome) ==
  /\ call.pc = "shards" /\ call.kind = "gather"
  /\ id \in call.pending
  /\ call' = GatherSettled(call, id, outcome)
  /\ ScatterFrame

RaceShardSettles(id, outcome) ==
  /\ call.pc = "shards" /\ call.kind = "race"
  /\ id \in call.pending
  /\ call' = RaceSettled(call, id, outcome)
  /\ ScatterFrame

SequentialShardSettles(outcome, shouldContinue) ==
  /\ call.pc = "shards" /\ call.kind = "sequential"
  /\ call' = SequentialSettled(call, outcome, shouldContinue)
  /\ ScatterFrame

NextScatter ==
  \/ \E kind \in Kinds : CallPrimitive(kind)
  \/ \E ok \in BOOLEAN : ReadRegistry(ok)
  \/ \E id \in ShardIds, outcome \in Outcomes : GatherShardSettles(id, outcome)
  \/ \E id \in ShardIds, outcome \in Outcomes : RaceShardSettles(id, outcome)
  \/ \E outcome \in Outcomes, shouldContinue \in BOOLEAN :
       SequentialShardSettles(outcome, shouldContinue)

SpecScatter == InitScatter /\ [][NextScatter]_vars

\* C21: in a gather, a shard whose operation failed fails the call, and the
\* aggregator is applied to nothing unless every listed shard returned a
\* result: it is then applied to all of them.
C21_GatherFailsAsAWhole ==
  call.kind = "gather" =>
    /\ call.failedShards # {} =>
         /\ call.pc = "failed" /\ ~call.merged /\ call.result = Null
         /\ call.error = "Failed to execute operations across shards"
    /\ call.merged =>
         /\ call.failedShards = {}
         /\ \A k \in 1..Len(call.allShards) : call.results[k] # Null
         /\ call.result = aggregator(call.results)

\* a gather over two shards has failed on one shard after the other had
\* returned its result
C21_Witness ==
  /\ call.kind = "gather" /\ call.pc = "failed"
  /\ Len(call.allShards) = 2 /\ call.failedShards # {}
  /\ \E k \in 1..2 : call.results[k] # Null

\* C22: a race over a non-empty shard list in which every shard's operation
\* has failed has returned the fallback value, with no shard and no error.
C22_RaceAllFailedReturnsFallback ==
  (/\ call.kind = "race" /\ call.listed /\ Len(call.allShards) > 0
   /\ call.failedShards = SeqToSet(call.allShards)) =>
    /\ call.pc = "done" /\ call.error = ""
    /\ call.result = fallbackValue /\ call.shardId = Null

\* a race over two shards in which both operations have failed
C22_Witness ==
  /\ call.kind = "race" /\ Len(call.allShards) = 2
  /\ call.failedShards = {1, 2} /\ call.pc = "done"

\* C23: a sequential call invokes the shards in registry order, one after
\* the other, gives the first the initial accumulator and each later one the
\* accumulator the previous one returned, and invokes no shard once a step
\* has returned shouldContinue = false.
C23_SequentialInOrderUntilStop ==
  call.kind = "sequential" =>
    /\ Len(call.invoked) <= Len(call.allShards)
    /\ call.invoked = [k \in 1..Len(call.invoked) |-> call.allShards[k]]
    /\ Len(call.passed) = Len(call.invoked)
    /\ \A k \in 1..Len(call.passed) :
         call.passed[k] = IF k = 1 THEN initialAccumulator ELSE call.produced[k - 1]
    /\ call.stopped =>
         /\ call.pc = "done"
         /\ Len(call.produced) = Len(call.invoked)
         /\ call.result = finalizer(call.produced[Len(call.produced)])

\* the first of two shards has returned shouldContinue = false and the second
\* was not invoked
C23_Witness ==
  /\ call.kind = "sequential" /\ Len(call.allShards) = 2
  /\ call.stopped /\ call.invoked = <<1>> /\ call.pc = "done"

\* C24: a sequential call in which a shard's operation has failed does not
\* fail: it goes on or has returned a result through the finalizer.
C24_SequentialAbsorbsFailure ==
  (call.kind = "sequential" /\ call.failedShards # {}) =>
    /\ call.pc \in {"shards", "done"}
    /\ call.pc = "done" => call.merged

\* C25: with an empty shard list no primitive fails: the gather returns the
\* aggregator of no result, the race the fallback value, the sequential call
\* the finalizer of the initial accumulator.
C25_EmptyShardListTolerated ==
  (call.listed /\ call.allShards = << >>) =>
    /\ call.pc = "done" /\ call.error = ""
    /\ call.kind = "gather" => call.result = aggregator(<< >>)
    /\ call.kind = "race" => call.result = fallbackValue /\ call.shardId = Null
    /\ call.kind = "sequential" => call.result = finalizer(initialAccumulator)
    /\ call.invoked = << >> /\ call.failedShards = {}

\* a sequential call over no shard has returned the finalizer of the initial
\* accumulator
C25_Witness ==
  /\ call.kind = "sequential" /\ call.listed /\ call.allShards = << >>
  /\ call.pc = "done" /\ call.result = finalizer(initialAccumulator)

(***************************************************************************)
(* The workflow engine: one executeWorkflowChain over the registered       *)
(* workflows, then clearContext, as runThreadWorkflow calls them.  Every   *)
(* workflow has MaxSteps steps; whether a step is enabled and its error    *)
(* handling are drawn at registration; what its condition and its action   *)
(* do is drawn when they are called.                                       *)
(***************************************************************************)
\* registered workflows, and steps of a workflow
MaxWorkflows == 2
MaxSteps == 2

\* workflow.name
WorkflowName(w) == "workflow-" \o ToString(w)

\* step.id: the last step of every workflow has the same id, as
\* 'cleanup-workflow-execution' in the default workflows
StepId(w, k) ==
  IF k = MaxSteps THEN "cleanup-workflow-execution"
  ELSE "step-" \o ToString(w) \o "-" \o ToString(k)

\* step.errorHandling: 'continue', 'fail', or "" when the step sets none
ErrorHandlings == {"continue", "fail", ""}

\* the steps a workflow can be registered with
StepsOf(w) ==
  {steps \in [1..MaxSteps -> [id : {StepId(w, k) : k \in 1..MaxSteps},
                              enabled : BOOLEAN,
                              errorHandling : ErrorHandlings]] :
     \A k \in 1..MaxSteps : steps[k].id = StepId(w, k)}

\* what a condition does: met, not met, or throws; what an action does
ConditionOutcomes == {"true", "false", "throws"}
ActionOutcomes == {"returns", "throws"}

\* Map.set and the keys of a map held as a set of <<key, value>>
MapSet(map, key, value) == {e \in map : e[1] # key} \cup {<<key, value>>}
Keys(map) == {e[1] : e \in map}

RECURSIVE MapMerge(_, _)
\* for (const [key, value] of results) sharedResults.set(key, value)
MapMerge(map, entries) ==
  IF entries = {} THEN map
  ELSE LET e == CHOOSE x \in entries : TRUE
       IN MapMerge(MapSet(map, e[1], e[2]), entries \ {e})

\* part_005 lines 83-129: the loop has dealt with step k and goes to the next
\* step, or leaves the loop after the last one
NextStep(e) ==
  IF e.step < MaxSteps THEN [e EXCEPT !.step = @ + 1]
  ELSE [e EXCEPT !.step = @ + 1, !.pc = "merge"]

\* variant of StepCaught: a step that sets no error handling fails the workflow
StepCaught_DefaultFail(e, step) ==
  IF step.errorHandling # "continue"
  THEN [e EXCEPT !.pc = "merge", !.thrown = TRUE,
                 !.aborted = @ \cup {<<e.workflow, e.step>>}]
  ELSE NextStep([e EXCEPT !.errors = @ \cup {step.id}])

\* lines 113-128: the catch block of a step
StepCaught(e, step) ==
  IF step.errorHandling = "fail"
  THEN [e EXCEPT !.pc = "merge", !.thrown = TRUE,
                 !.aborted = @ \cup {<<e.workflow, e.step>>}]
  ELSE NextStep([e EXCEPT !.errors = @ \cup {step.id}])

\* variant of StepSettled: a condition that is not met skips the step only
StepSettled_SkipsStep(e, condition, action) ==
  LET w == e.workflow
      k == e.step
      step == e.workflows[w][k]
      given == [e EXCEPT !.saw = @ \cup {<<w, k, Keys(e.results)>>}]
  IN IF ~step.enabled THEN NextStep(e)
     ELSE IF condition = "throws"
          THEN StepCaught([given EXCEPT !.tested = @ \cup {<<w, k>>}], step)
     ELSE IF condition = "false"
          THEN NextStep([given EXCEPT !.tested = @ \cup {<<w, k>>},
                                      !.broken = @ \cup {<<w, k>>}])
     ELSE LET called == [given EXCEPT !.tested = @ \cup {<<w, k>>},
                                      !.acted = @ \cup {<<w, k>>}]
          IN IF action = "throws"
             THEN StepCaught([called EXCEPT !.threw = @ \cup {<<w, k>>}], step)
             ELSE NextStep([called EXCEPT
                              !.succeeded = @ \cup {<<w, k>>},
                              !.results = MapSet(@, step.id, <<w, k>>)])

\* variant of StepSettled: a step that throws never ends the workflow
StepSettled_AlwaysContinue(e, condition, action) ==
  LET w == e.workflow
      k == e.step
      step == e.workflows[w][k]
      given == [e EXCEPT !.saw = @ \cup {<<w, k, Keys(e.results)>>}]
      caught(x) == NextStep([x EXCEPT !.errors = @ \cup {step.id}])
  IN IF ~step.enabled THEN NextStep(e)
     ELSE IF condition = "throws"
          THEN caught([given EXCEPT !.tested = @ \cup {<<w, k>>}])
     ELSE IF condition = "false"
          THEN [given EXCEPT !.pc = "merge", !.tested = @ \cup {<<w, k>>},
                             !.broken = @ \cup {<<w, k>>}]
     ELSE LET called == [given EXCEPT !.tested = @ \cup {<<w, k>>},
                                      !.acted = @ \cup {<<w, k>>}]
          IN IF action = "throws"
             THEN caught([called EXCEPT !.threw = @ \cup {<<w, k>>}])
             ELSE NextStep([called EXCEPT
                              !.succeeded = @ \cup {<<w, k>>},
                              !.results = MapSet(@, step.id, <<w, k>>)])

\* lines 83-129: one iteration of the loop over workflow.steps
StepSettled(e, condition, action) ==
  LET w == e.workflow
      k == e.step
      step == e.workflows[w][k]
      given == [e EXCEPT !.saw = @ \cup {<<w, k, Keys(e.results)>>}]
  IN IF ~step.enabled THEN NextStep(e)
     ELSE IF condition = "throws"
          THEN StepCaught([given EXCEPT !.tested = @ \cup {<<w, k>>}], step)
     ELSE IF condition = "false"
          THEN [given EXCEPT !.pc = "merge", !.tested = @ \cup {<<w, k>>},
                             !.broken = @ \cup {<<w, k>>}]
     ELSE LET called == [given EXCEPT !.tested = @ \cup {<<w, k>>},
                                      !.acted = @ \cup {<<w, k>>}]
          IN IF action = "throws"
             THEN StepCaught([called EXCEPT !.threw = @ \cup {<<w, k>>}], step)
             ELSE NextStep([called EXCEPT
                              !.succeeded = @ \cup {<<w, k>>},
                              !.results = MapSet(@, step.id, <<w, k>>)])

\* variant of Merged: a workflow that throws ends the chain
Merged_Rethrows(e) ==
  IF e.thrown
  THEN [e EXCEPT !.pc = "chain", !.thrown = FALSE, !.workflow = Len(e.workflows),
                 !.allErrors = @ \cup {WorkflowName(e.workflow)}]
  ELSE [e EXCEPT !.pc = "chain",
                 !.sharedResults = MapMerge(@, e.results),
                 !.allErrors = @ \cup e.errors]

\* lines 151-175: executeWorkflow has returned or thrown
Merged(e) ==
  IF e.thrown
  THEN [e EXCEPT !.pc = "chain", !.thrown = FALSE,
                 !.allErrors = @ \cup {WorkflowName(e.workflow)}]
  ELSE [e EXCEPT !.pc = "chain",
                 !.sharedResults = MapMerge(@, e.results),
                 !.allErrors = @ \cup e.errors]

\* lines 181-186: context.results.clear()
Cleared(e) == [e EXCEPT !.pc = "cleared", !.contextResults = {}]

\* what the names of a chain can stand for: each one a registered workflow,
\* or none
Registrations ==
  {ws \in [1..MaxWorkflows -> UNION {StepsOf(w) : w \in 1..MaxWorkflows} \cup {<< >>}] :
     \A w \in 1..MaxWorkflows : ws[w] \in StepsOf(w) \cup {<< >>}}

InitEngine ==
  /\ kv = {}
  /\ head = 1
  /\ cursor = Null
  /\ registry = << >>
  /\ shardThreads = [s \in ShardIds |-> {}]
  /\ shardLabels = [s \in ShardIds |-> [t \in Threads |-> {}]]
  /\ shardSize = [s \in ShardIds |-> 0]
  /\ homeShard = [t \in Threads |-> Null]
  /\ runs = [r \in Runs |-> IdleRun]
  /\ quiet = Null
  /\ call = IdleCall
  /\ mailer = IdleMailer
  /\ server = IdleServer
  /\ \E workflows \in Registrations :
       engine = [IdleEngine EXCEPT !.workflows = workflows]

EngineFrame ==
  UNCHANGED <<kv, cursor, head, registry, shardThreads, shardLabels, shardSize,
              homeShard, runs, quiet, call, mailer, server>>

\* part_002 lines 621-639 and part_005 lines 146-147: the context is created
\* with an empty results map and the chain starts with empty shared maps
ExecuteWorkflowChain ==
  /\ engine.pc = "idle"
  /\ engine' = [engine EXCEPT !.pc = "chain", !.mode = "chain", !.contextResults = {},
                              !.sharedResults = {}, !.allErrors = {}]
  /\ EngineFrame

\* the existingResults argument of executeWorkflow: sharedResults in the chain
\* (part_005 lines 152-156), none in the loop of the variant without Effect
\* (part_002 lines 800-803)
existingResults(e) == IF e.mode = "chain" THEN e.sharedResults ELSE {}

\* part_005 lines 60-80: executeWorkflow is called for the next name; it throws
\* when no workflow has that name, and starts on a copy of existingResults
\* otherwise
Started(e) ==
  LET w == e.workflow + 1
      called == [e EXCEPT !.workflow = w, !.executed = @ \cup {w},
                          !.results = {}, !.errors = {}]
  IN IF DOMAIN e.workflows[w] = {}
     THEN [called EXCEPT !.pc = "merge", !.step = 0, !.thrown = TRUE]
     ELSE [called EXCEPT !.pc = "steps", !.step = 1, !.thrown = FALSE,
                         !.results = existingResults(e)]

ExecuteWorkflow ==
  /\ engine.pc = "chain"
  /\ engine.workflow < Len(engine.workflows)
  /\ engine' = Started(engine)
  /\ EngineFrame

ExecuteStep(condition, action) ==
  /\ engine.pc = "steps"
  /\ engine' = StepSettled(engine, condition, action)
  /\ EngineFrame

MergeResults ==
  /\ engine.pc = "merge"
  /\ engine' = Merged(engine)
  /\ EngineFrame

\* part_005 line 178 and part_002 line 647: the chain has returned and the
\* caller clears the context
ClearContext ==
  /\ engine.pc = "chain"
  /\ engine.workflow = Len(engine.workflows)
  /\ engine' = Cleared(engine)
  /\ EngineFrame

NextEngine ==
  \/ ExecuteWorkflowChain
  \/ ExecuteWorkflow
  \/ \E condition \in ConditionOutcomes, action \in ActionOutcomes :
       ExecuteStep(condition, action)
  \/ MergeResults
  \/ ClearContext

SpecEngine == InitEngine /\ [][NextEngine]_vars

\* C26: when the condition of an enabled step is not met the workflow stops:
\* the step's action is not called, no later step's condition or action is
\* called, nothing is stored for these steps, no error is recorded for them
\* and the workflow does not throw.
C26_ConditionNotMetStopsPipeline ==
  \A b \in engine.broken :
    LET w == b[1]
        k == b[2]
    IN /\ engine.workflows[w][k].enabled
       /\ b \notin engine.acted
       /\ \A j \in (k + 1)..MaxSteps :
            <<w, j>> \notin engine.tested \cup engine.acted
       /\ \A j \in k..MaxSteps :
            <<StepId(w, j), <<w, j>>>> \notin engine.results \cup engine.sharedResults
       /\ b \notin engine.aborted
       /\ WorkflowName(w) \notin engine.allErrors
       /\ engine.workflow = w =>
            /\ ~engine.thrown /\ engine.pc \in {"merge", "chain", "cleared"}
            /\ \A j \in k..MaxSteps : StepId(w, j) \notin engine.errors

\* the condition of the first step of the first workflow was not met, the
\* second step is enabled, and the workflow has ended with no result and no error
C26_Witness ==
  /\ engine.broken = {<<1, 1>>} /\ engine.workflow = 1 /\ engine.pc = "merge"
  /\ engine.workflows[1][2].enabled
  /\ engine.results = {} /\ engine.errors = {} /\ engine.tested = {<<1, 1>>}

\* C27: when the action of a step throws, under 'continue' the error is
\* recorded under the step's id and the loop goes on with the next step, which
\* is tested when it is enabled; under 'fail' executeWorkflow throws, no later
\* step of the workflow is tested or called, and the chain records the error
\* under the workflow's name.
C27_ErrorPolicy ==
  [][/\ \A w \in 1..MaxWorkflows, k \in 1..MaxSteps :
          (<<w, k>> \in engine'.threw /\ <<w, k>> \notin engine.threw) =>
            IF engine.workflows[w][k].errorHandling = "fail"
            THEN /\ engine'.thrown /\ engine'.pc = "merge"
                 /\ StepId(w, k) \notin engine'.errors \ engine.errors
            ELSE /\ StepId(w, k) \in engine'.errors
                 /\ ~engine'.thrown /\ engine'.step = k + 1
                 /\ k < MaxSteps => engine'.pc = "steps"
     /\ (engine.pc = "steps" /\ engine' # engine
           /\ engine.workflows[engine.workflow][engine.step].enabled) =>
          <<engine.workflow, engine.step>> \in engine'.tested
     /\ (engine.thrown /\ engine' # engine) =>
          /\ WorkflowName(engine.workflow) \in engine'.allErrors
          /\ engine'.tested = engine.tested /\ engine'.acted = engine.acted
     /\ \A a \in engine'.aborted : \A j \in (a[2] + 1)..MaxSteps :
          <<a[1], j>> \notin engine'.tested \cup engine'.acted
    ]_vars

\* the first step of workflow 1 threw under 'continue' and its second step
\* was called; the first step of workflow 2 threw under 'fail' and its second
\* step, although enabled, was not tested
C27_Witness ==
  /\ engine.pc = "cleared"
  /\ <<1, 1>> \in engine.threw /\ engine.workflows[1][1].errorHandling = "continue"
  /\ <<1, 2>> \in engine.acted
  /\ <<2, 1>> \in engine.threw /\ <<2, 1>> \in engine.aborted
  /\ engine.workflows[2][2].enabled /\ <<2, 2>> \notin engine.tested
  /\ WorkflowName(2) \in engine.allErrors

\* C28: every step of a later workflow of the chain is given the outputs of
\* all the steps of earlier workflows whose action returned, and the chain's
\* final result map holds all of these outputs.
C28_LaterPipelinesSeeEarlierOutputs ==
  /\ \A e \in engine.saw : \A x \in engine.succeeded :
       x[1] < e[1] => StepId(x[1], x[2]) \in e[3]
  /\ engine.pc = "cleared" =>
       \A x \in engine.succeeded : StepId(x[1], x[2]) \in Keys(engine.sharedResults)

\* C29: after clearContext the result map the chain accumulated is empty.
C29_ClearContextEmptiesSharedResults ==
  engine.pc = "cleared" => engine.sharedResults = {}

(***************************************************************************)
(* The lock of the attempt in flight.                                      *)
(***************************************************************************)
\* C30: the lock key of an attempt that is past lock acquisition and has not
\* ended stays present: no attempt that ends as AlreadyProcessing deletes it.
C30_RejectedAttemptKeepsLock ==
  \A r \in Runs : HoldsLock(r) => LockKey(r) \in kv

(***************************************************************************)
(* The lock key, the cursor and the terminal states of the coordinator.    *)
(***************************************************************************)
\* C31: two attempts in flight have the same lock key exactly when they were
\* delivered the same incoming change token, whatever the cursor held when
\* each of them started.
C31_LockKeyedByIncomingToken ==
  \A r1, r2 \in Runs :
    (r1 # r2 /\ Active(r1) /\ Active(r2)) =>
      ((runs[r1].nextHistoryId = runs[r2].nextHistoryId) <=> (LockKey(r1) = LockKey(r2)))

\* C32: the stored cursor never goes back to an older token.
C32_CursorOnlyAdvances ==
  [][cursor' >= cursor]_vars

\* C33: a run whose connection lacks an access or refresh token ends with the
\* error ConnectionNotAuthorized, not with the error of an unexpected failure.
C33_UnauthorizedIsATerminalState ==
  \A r \in Runs :
    (runs[r].pc = "cleanup" /\ runs[r].connection = "not authorized") =>
      runs[r].error = "ConnectionNotAuthorized"

\* C34: when two calls of getActiveShardId listed the same registry and each
\* found no shard to return, one shard only is registered and both calls
\* return it.
C34_ConcurrentCallsRegisterOneShard ==
  \A r1, r2 \in Runs :
    (/\ r1 # r2 /\ Returned(r1) /\ Returned(r2)
     /\ runs[r1].allShards = runs[r2].allShards
     /\ runs[r1].inserted # << >> /\ runs[r2].inserted # << >>) =>
      /\ runs[r1].agent = runs[r2].agent
      /\ Len(registry) = Len(runs[r1].allShards) + 1

(***************************************************************************)
(* The chain and the error maps of the workflow engine.                    *)
(***************************************************************************)
\* no workflow is registered under the w-th name of the chain
Unregistered(w) == DOMAIN engine.workflows[w] = {}

\* executeWorkflow has been called for the w-th name and the chain has dealt
\* with what it returned or threw
DealtWith(w) ==
  \/ w < engine.workflow
  \/ w = engine.workflow /\ engine.pc \in {"chain", "cleared"}

\* C35: when a workflow of the chain throws, under 'fail' or because it is not
\* registered, the error is recorded under the workflow's name, and the chain
\* returns only after executeWorkflow was called for every name.
C35_ChainSurvivesAbort ==
  /\ \A w \in 1..MaxWorkflows :
       (DealtWith(w) /\ (Unregistered(w) \/ \E k \in 1..MaxSteps : <<w, k>> \in engine.aborted))
         => WorkflowName(w) \in engine.allErrors
  /\ engine.pc = "cleared" => engine.executed = 1..MaxWorkflows
  /\ \A w \in engine.executed : \A v \in 1..w : v \in engine.executed

\* the first workflow threw under 'fail', the second one is registered and
\* one of its actions was called afterwards
C35_Witness ==
  /\ engine.pc = "cleared"
  /\ \E k \in 1..MaxSteps : <<1, k>> \in engine.aborted
  /\ WorkflowName(1) \in engine.allErrors
  /\ \E k \in 1..MaxSteps : <<2, k>> \in engine.acted

\* C36: in what the chain returns no step id is both a key of the result map
\* and a key of the error map.
C36_ResultsAndErrorsDisjoint ==
  (engine.pc = "cleared" \/ (engine.pc = "chain" /\ engine.workflow = MaxWorkflows))
    => Keys(engine.sharedResults) \cap engine.allErrors = {}

\* C37: when the condition or the action of a step that sets no error handling
\* throws, the error is recorded under the step's id, executeWorkflow does not
\* throw, and the loop goes on with the next step.
C37_NoPolicyMeansContinue ==
  [][LET w == engine.workflow
         k == engine.step
         conditionThrew == /\ <<w, k>> \in engine'.tested
                           /\ <<w, k>> \notin engine'.acted \cup engine'.broken
         actionThrew == <<w, k>> \in engine'.threw
     IN (/\ engine.pc = "steps" /\ engine' # engine
         /\ engine.workflows[w][k].errorHandling = ""
         /\ (conditionThrew \/ actionThrew)) =>
          /\ StepId(w, k) \in engine'.errors
          /\ ~engine'.thrown /\ <<w, k>> \notin engine'.aborted
          /\ engine'.workflow = w /\ engine'.step = k + 1
          /\ k < MaxSteps => engine'.pc = "steps"
    ]_vars

\* the action of a step without error handling threw in workflow 1 and the
\* condition of one threw in workflow 2; in both the next step was called
C37_Witness ==
  /\ engine.pc = "cleared"
  /\ ~Unregistered(1) /\ ~Unregistered(2)
  /\ engine.workflows[1][1].errorHandling = "" /\ <<1, 1>> \in engine.threw
  /\ <<1, 2>> \in engine.acted
  /\ engine.workflows[2][1].errorHandling = ""
  /\ <<2, 1>> \in engine.tested /\ <<2, 1>> \notin engine.acted \cup engine.broken
  /\ <<2, 2>> \in engine.acted
  /\ StepId(1, 1) \in engine.allErrors /\ StepId(2, 1) \in engine.allErrors

(***************************************************************************)
(* runThreadWorkflow and its variant without Effect: the variant runs the  *)
(* loop over the workflow names itself (part_002 lines 791-816) instead of *)
(* calling executeWorkflowChain.                                           *)
(***************************************************************************)
\* part_002 lines 778-794: the context is created with an empty results map
\* and the loop starts with empty allResults and allErrors
runThreadWorkflowWithoutEffect ==
  /\ engine.pc = "idle"
  /\ engine' = [engine EXCEPT !.pc = "chain", !.mode = "loop", !.contextResults = {},
                              !.sharedResults = {}, !.allErrors = {}]
  /\ EngineFrame

NextVariant ==
  \/ ExecuteWorkflowChain
  \/ runThreadWorkflowWithoutEffect
  \/ ExecuteWorkflow
  \/ \E condition \in ConditionOutcomes, action \in ActionOutcomes :
       ExecuteStep(condition, action)
  \/ MergeResults
  \/ ClearContext

SpecVariant == InitEngine /\ [][NextVariant]_vars

\* C38: in runThreadWorkflow and in the variant without Effect alike, the
\* result map a step is given holds every output merged from the workflows
\* executed before.
C38_VariantSeesEarlierOutputs ==
  engine.pc = "steps" => Keys(engine.sharedResults) \subseteq Keys(engine.results)

(***************************************************************************)
(* Scheduled emails: processScheduledEmails (part_001 lines 2423-2475) and *)
(* the send-email queue handler (lines 2303-2371).  Every await is a step. *)
(* All scheduled emails are due (sendAt <= twelveHoursFromNow).            *)
(***************************************************************************)
InitSchedule ==
  /\ kv = {}
  /\ head = 1
  /\ cursor = Null
  /\ registry = << >>
  /\ shardThreads = [s \in ShardIds |-> {}]
  /\ shardLabels = [s \in ShardIds |-> [t \in Threads |-> {}]]
  /\ shardSize = [s \in ShardIds |-> 0]
  /\ homeShard = [t \in Threads |-> Null]
  /\ runs = [r \in Runs |-> IdleRun]
  /\ quiet = Null
  /\ call = IdleCall
  /\ engine = IdleEngine
  /\ server = IdleServer
  /\ \E cancelled \in SUBSET MessageIds :
       mailer = [IdleMailer EXCEPT !.scheduled = MessageIds, !.payload = MessageIds,
                                   !.cancelled = cancelled]

ScheduleFrame ==
  UNCHANGED <<kv, cursor, head, registry, shardThreads, shardLabels, shardSize,
              homeShard, runs, quiet, call, engine, server>>

\* the loop goes to the next listed key, or the run is over
NextKey(cron) ==
  IF cron.keys = {} THEN IdleCron ELSE [cron EXCEPT !.pc = "get", !.key = Null]

\* lines 2437-2441: scheduled() runs and lists the keys of scheduled_emails
processScheduledEmails(c) ==
  /\ mailer.crons[c].pc = "idle"
  /\ mailer.scheduled # {}
  /\ mailer' = [mailer EXCEPT !.crons[c] =
                  [pc |-> "get", keys |-> mailer.scheduled, key |-> Null]]
  /\ ScheduleFrame

\* lines 2445-2447: the next key is read; a key deleted meanwhile is skipped
GetScheduled(c) ==
  /\ mailer.crons[c].pc = "get"
  /\ LET cron == mailer.crons[c]
         key == CHOOSE k \in cron.keys : \A other \in cron.keys : k <= other
         rest == [cron EXCEPT !.keys = @ \ {key}]
     IN mailer' = [mailer EXCEPT !.crons[c] =
                     IF key \in mailer.scheduled
                     THEN [rest EXCEPT !.pc = "send", !.key = key]
                     ELSE NextKey(rest)]
  /\ ScheduleFrame

\* line 2462: send_email_queue.send(queueBody); a rejection is caught at
\* line 2467 and the loop goes on
SendToQueue(c, ok) ==
  /\ mailer.crons[c].pc = "send"
  /\ ok => mailer.queue[mailer.crons[c].key] < MaxQueued
  /\ LET cron == mailer.crons[c]
     IN mailer' = IF ok
                  THEN [mailer EXCEPT !.queue[cron.key] = @ + 1,
                                      !.crons[c] = [cron EXCEPT !.pc = "delete"]]
                  ELSE [mailer EXCEPT !.crons[c] = NextKey(cron)]
  /\ ScheduleFrame

\* line 2463: scheduledKV.delete(key.name)
DeleteScheduled(c, ok) ==
  /\ mailer.crons[c].pc = "delete"
  /\ LET cron == mailer.crons[c]
     IN mailer' = [mailer EXCEPT
                     !.scheduled = IF ok THEN @ \ {cron.key} ELSE @,
                     !.crons[c] = NextKey(cron)]
  /\ ScheduleFrame

\* lines 2303-2306: a message of the send-email queue is delivered
ReceiveMessage(h, messageId) ==
  /\ mailer.handlers[h].pc = "idle"
  /\ mailer.queue[messageId] > 0
  /\ mailer' = [mailer EXCEPT !.queue[messageId] = @ - 1,
                              !.handlers[h] = [pc |-> "status", messageId |-> messageId]]
  /\ ScheduleFrame

\* lines 2311-2315: a cancelled email is skipped
GetStatus(h) ==
  /\ mailer.handlers[h].pc = "status"
  /\ mailer' = [mailer EXCEPT !.handlers[h] =
                  IF mailer.handlers[h].messageId \in mailer.cancelled
                  THEN IdleHandler
                  ELSE [mailer.handlers[h] EXCEPT !.pc = "payload"]]
  /\ ScheduleFrame

\* lines 2317-2325: the queue body of a scheduled email has no mail, so the
\* payload is read from the store; without a payload nothing is sent
GetPayload(h) ==
  /\ mailer.handlers[h].pc = "payload"
  /\ mailer' = [mailer EXCEPT !.handlers[h] =
                  IF mailer.handlers[h].messageId \in mailer.payload
                  THEN [mailer.handlers[h] EXCEPT !.pc = "create"]
                  ELSE IdleHandler]
  /\ ScheduleFrame

\* lines 2353-2358 and 2363-2364: sendDraft / create resolves or rejects; both
\* ways the handler goes on to delete the status and the payload
SendEmail(h, ok) ==
  /\ mailer.handlers[h].pc = "create"
  /\ mailer' = [mailer EXCEPT
                  !.sent[mailer.handlers[h].messageId] = IF ok THEN @ + 1 ELSE @,
                  !.handlers[h].pc = "deleteStatus"]
  /\ ScheduleFrame

\* lines 2360 and 2365: statusKV.delete(messageId)
DeleteStatus(h) ==
  /\ mailer.handlers[h].pc = "deleteStatus"
  /\ mailer' = [mailer EXCEPT !.cancelled = @ \ {mailer.handlers[h].messageId},
                              !.handlers[h].pc = "deletePayload"]
  /\ ScheduleFrame

\* lines 2361 and 2366: payloadKV.delete(messageId)
DeletePayload(h) ==
  /\ mailer.handlers[h].pc = "deletePayload"
  /\ mailer' = [mailer EXCEPT !.payload = @ \ {mailer.handlers[h].messageId},
                              !.handlers[h] = IdleHandler]
  /\ ScheduleFrame

NextSchedule ==
  \/ \E c \in Crons : processScheduledEmails(c)
  \/ \E c \in Crons : GetScheduled(c)
  \/ \E c \in Crons, ok \in BOOLEAN : SendToQueue(c, ok)
  \/ \E c \in Crons, ok \in BOOLEAN : DeleteScheduled(c, ok)
  \/ \E h \in Handlers, m \in MessageIds : ReceiveMessage(h, m)
  \/ \E h \in Handlers : GetStatus(h)
  \/ \E h \in Handlers : GetPayload(h)
  \/ \E h \in Handlers, ok \in BOOLEAN : SendEmail(h, ok)
  \/ \E h \in Handlers : DeleteStatus(h)
  \/ \E h \in Handlers : DeletePayload(h)

SpecSchedule == InitSchedule /\ [][NextSchedule]_vars

\* C39: no scheduled email is sent more than once.
C39_SentAtMostOnce ==
  \A m \in MessageIds : mailer.sent[m] <= 1

(***************************************************************************)
(* AdminiMailServerManager.start and stop (part_001 lines 1064-1130).  The *)
(* start of each listener is awaited in turn; the stops are awaited        *)
(* together and settle in any order.                                       *)
(***************************************************************************)
InitServer ==
  /\ kv = {}
  /\ head = 1
  /\ cursor = Null
  /\ registry = << >>
  /\ shardThreads = [s \in ShardIds |-> {}]
  /\ shardLabels = [s \in ShardIds |-> [t \in Threads |-> {}]]
  /\ shardSize = [s \in ShardIds |-> 0]
  /\ homeShard = [t \in Threads |-> Null]
  /\ runs = [r \in Runs |-> IdleRun]
  /\ quiet = Null
  /\ call = IdleCall
  /\ engine = IdleEngine
  /\ mailer = IdleMailer
  /\ \E secure \in SUBSET Protocols : server = [IdleServer EXCEPT !.secure = secure]

ServerFrame ==
  UNCHANGED <<kv, cursor, head, registry, shardThreads, shardLabels, shardSize,
              homeShard, runs, quiet, call, engine, mailer>>

\* the protocol a listener serves
ProtocolOf(listener) ==
  CASE listener = "smtps" -> "smtp"
    [] listener = "imaps" -> "imap"
    [] listener = "pop3s" -> "pop3"
    [] OTHER -> listener

\* lines 1182, 1215, 1247: the secure listener of a protocol is started only
\* when a secure port is configured
Configured(listener, secure) ==
  listener \in Protocols \/ ProtocolOf(listener) \in secure

\* position of the listener start() starts after the one at position i, or
\* Len(Listeners) + 1 when that was the last one
NextListener(secure, i) ==
  LET later == {j \in (i + 1)..Len(Listeners) : Configured(Listeners[j], secure)}
  IN IF later = {} THEN Len(Listeners) + 1
     ELSE CHOOSE j \in later : \A other \in later : j <= other

\* stop() has returned: the catch of start() rethrows, a caller of stop() goes on
Stopped(s) ==
  [s EXCEPT !.pc = "idle", !.pending = {}, !.rejected = s.rethrow, !.rethrow = FALSE]

\* lines 1092-1127: stop() returns at once when isRunning is false; otherwise
\* it calls stop() on every listener field that is set and awaits them all
StopCalled(s) ==
  IF ~s.isRunning THEN Stopped(s)
  ELSE IF s.created = {} THEN Stopped([s EXCEPT !.isRunning = FALSE])
  ELSE [s EXCEPT !.pc = "stopping", !.pending = s.created]

\* lines 1064-1069: start() throws when the manager is running
start ==
  /\ server.pc = "idle"
  /\ server' = IF server.isRunning
                THEN [server EXCEPT !.rejected = TRUE]
                ELSE [server EXCEPT !.pc = "starting", !.next = 1, !.rejected = FALSE]
  /\ ServerFrame

\* lines 1071-1089: the next listener is created and its start() resolves or
\* rejects; after the last one isRunning is set; a rejection is caught, stop()
\* is awaited and the error is thrown again
StartListener(ok) ==
  /\ server.pc = "starting"
  /\ LET listener == Listeners[server.next]
         made == [server EXCEPT !.created = @ \cup {listener},
                                !.listening = IF ok THEN @ \cup {listener} ELSE @]
         n == NextListener(server.secure, server.next)
     IN server' = IF ~ok THEN StopCalled([made EXCEPT !.next = 0, !.rethrow = TRUE])
                  ELSE IF n > Len(Listeners)
                       THEN [made EXCEPT !.pc = "idle", !.next = 0, !.isRunning = TRUE]
                       ELSE [made EXCEPT !.next = n]
  /\ ServerFrame

\* a caller calls stop()
stop ==
  /\ server.pc = "idle"
  /\ server' = StopCalled(server)
  /\ ServerFrame

\* lines 1123-1127: the stop() of one listener resolves; after the last one
\* isRunning is cleared
ListenerStopped(listener) ==
  /\ server.pc = "stopping"
  /\ listener \in server.pending
  /\ LET left == [server EXCEPT !.pending = @ \ {listener},
                                !.listening = @ \ {listener}]
     IN server' = IF left.pending = {}
                  THEN Stopped([left EXCEPT !.isRunning = FALSE])
                  ELSE left
  /\ ServerFrame

NextServer ==
  \/ start
  \/ \E ok \in BOOLEAN : StartListener(ok)
  \/ stop
  \/ \E i \in 1..Len(Listeners) : ListenerStopped(Listeners[i])

SpecServer == InitServer /\ [][NextServer]_vars

\* C40: whenever no start() or stop() is in progress and isRunning is false,
\* no listener is listening.
C40_NotRunningMeansNoListener ==
  (server.pc = "idle" /\ ~server.isRunning) => server.listening = {}

=============================================================================
